---- MODULE Spec2Model ----
(***************************************************************************)
(* The agent execution core of Jarvis: the turn loop of Agent              *)
(* (jarvis_agent/__init__.py), the tool dispatcher ToolRegistry            *)
(* (jarvis_tools/registry.py) and the routing handler MultiAgent           *)
(* (jarvis_multi_agent/__init__.py).                                       *)
(*                                                                         *)
(* A text is a sequence of atoms (strings); concatenation of texts is \o,  *)
(* the empty string is <<>> and "s contains t" is "every atom of t occurs  *)
(* in s".  A model response is a record: the <TOOL_CALL> blocks it holds,  *)
(* the <SEND_MESSAGE> blocks it holds, whether the auto-complete marker    *)
(* occurs in it, and its plain text.                                       *)
(***************************************************************************)
EXTENDS Integers, Sequences, FiniteSets, TLC

VARIABLES
    cfg,        \* the constructor arguments of the Agent (fixed for a behaviour)
    pc,         \* where Agent.run / _main_loop / _complete_task stands
    prompt,     \* session.prompt
    addon,      \* session.addon_prompt
    convLen,    \* session.conversation_length
    first,      \* self.first
    rihNext,    \* self.run_input_handlers_next_turn
    rih,        \* the local run_input_handlers of _main_loop
    interrupt,  \* the process-wide interrupt flag
    resp,       \* current_response of _main_loop
    aresp,      \* response of _process_analysis_loop
    message,    \* the outgoing message built by _call_model
    retval,     \* what Agent.run returned ("none" while running)
    ctx,        \* who called _complete_task: "interrupt" or "loop"
    autoc,      \* the auto_completed argument of the running _complete_task
    hist,       \* tokens of the texts sent to / received from the model since its last reset
    steps,      \* loop iterations performed (main loop and analysis loop)
    runs,       \* calls of Agent.run so far
    turn,       \* what happened in the current turn (observations for the properties)
    tmp_file_name,  \* the local tmp_file_name of _handle_history_with_file_upload
    disk,       \* the names of the files that exist
    last_agent, \* the local last_agent of MultiAgent.run
    routed_msg, \* the local msg of MultiAgent.run
    self_tools, \* ToolRegistry.tools (self.tools): the entries of the dict, in insertion order
    user_data   \* session.user_data

vars == <<cfg, pc, prompt, addon, convLen, first, rihNext, rih, interrupt, resp,
          aresp, message, retval, ctx, autoc, hist, steps, runs, turn,
          tmp_file_name, disk, last_agent, routed_msg, self_tools, user_data>>

(***************************************************************************)
(* Bounds of the exploration.                                              *)
(***************************************************************************)
MaxSteps == 2
MaxRuns == 1
MaxTokenCount == 6
MaxHandoffs == 3

(***************************************************************************)
(* Token estimate of a text.  One atom is one token, except the atom that  *)
(* stands for a long tool output, which alone exceeds every budget.        *)
(***************************************************************************)
BigTok == MaxTokenCount + 1

Weight(a) == IF a = "BIG" THEN BigTok ELSE 1

RECURSIVE get_context_token_count(_)
get_context_token_count(t) ==
    IF t = <<>> THEN 0 ELSE Weight(Head(t)) + get_context_token_count(Tail(t))

Atoms(t) == {t[i] : i \in 1..Len(t)}

Contains(s, t) == Atoms(t) \subseteq Atoms(s)

(***************************************************************************)
(* Tools, action blocks and responses.                                     *)
(***************************************************************************)
Registered == <<"echo", "save_memory">>

Call(n, a) == [kind |-> "map", name |-> n, args |-> a]

\* a block whose YAML is a plain scalar holding the words name and arguments
StrBlock == [kind |-> "str", name |-> "", args |-> ""]

\* a block whose YAML is a mapping lacking name or arguments
NoFields == [kind |-> "nofields", name |-> "", args |-> ""]

\* a block whose YAML does not load (or loads as None)
BadYaml == [kind |-> "badyaml", name |-> "", args |-> ""]

\* a <SEND_MESSAGE> block whose YAML is a mapping with to and content
Msg(to) == [kind |-> "map", to |-> to, content |-> "content"]

\* a <PATCH> block: with its File line and its code ("patch"), or lacking
\* one of them ("nofile")
PatchBlock(file, kind) == [kind |-> kind, file |-> file]

Response(tc, sm, mark, body) ==
    [tc |-> tc, sm |-> sm, mark |-> mark, body |-> body, pt |-> <<>>]

\* a response that holds <PATCH> blocks and no other action block
PatchResponse(pt) == [Response(<<>>, <<>>, FALSE, <<"say", "action block">>) EXCEPT !.pt = pt]

NoResponse == Response(<<>>, <<>>, FALSE, <<>>)

Say == <<"say">>

Act == <<"say", "action block">>

Responses ==
    { Response(<<>>, <<>>, FALSE, Say),
      Response(<<>>, <<>>, TRUE, Say),
      Response(<<Call("echo", "map")>>, <<>>, FALSE, Act),
      Response(<<Call("echo", "raw")>>, <<>>, FALSE, Act),
      Response(<<Call("ghost", "map")>>, <<>>, FALSE, Act),
      Response(<<Call("echo", "json"), NoFields>>, <<>>, FALSE, Act),
      Response(<<Call("echo", "map"), Call("save_memory", "map")>>, <<>>, FALSE, Act),
      Response(<<StrBlock>>, <<>>, FALSE, Act),
      Response(<<Call("echo", "map"), StrBlock>>, <<>>, FALSE, Act),
      Response(<<BadYaml>>, <<>>, FALSE, Act),
      Response(<<>>, <<Msg("B")>>, FALSE, Act),
      Response(<<>>, <<Msg("B"), Msg("C")>>, FALSE, Act),
      Response(<<>>, <<Msg("nobody")>>, FALSE, Act),
      Response(<<>>, <<NoFields, Msg("B")>>, FALSE, Act),
      Response(<<>>, <<StrBlock>>, FALSE, Act),
      Response(<<>>, <<NoFields>>, FALSE, Act),
      Response(<<>>, <<BadYaml>>, FALSE, Act),
      Response(<<Call("echo", "map")>>, <<Msg("B")>>, TRUE, Act),
      PatchResponse(<<PatchBlock("a.py", "patch")>>),
      PatchResponse(<<PatchBlock("a.py", "nofile")>>),
      PatchResponse(<<PatchBlock("a.py", "nofile"), PatchBlock("b.py", "patch")>>) }

\* what the model answers in a run of the agent
ModelResponses ==
    { Response(<<>>, <<>>, FALSE, Say),
      Response(<<>>, <<>>, TRUE, Say),
      Response(<<Call("echo", "map")>>, <<>>, FALSE, Act),
      Response(<<Call("echo", "raw")>>, <<>>, FALSE, Act),
      Response(<<Call("echo", "map"), Call("save_memory", "map")>>, <<>>, FALSE, Act),
      Response(<<Call("echo", "map"), StrBlock>>, <<>>, FALSE, Act),
      Response(<<>>, <<Msg("B")>>, FALSE, Act),
      Response(<<Call("echo", "map")>>, <<Msg("B")>>, TRUE, Act) }

\* the estimate of a response is the estimate of its text
ResponseTokens(r) == get_context_token_count(r.body)

(***************************************************************************)
(* ToolRegistry (jarvis_tools/registry.py).                                *)
(***************************************************************************)
Keeps(b) == b.kind \in {"map", "str"}

\* re.findall of the blocks, yaml.safe_load of each, the membership test
\* 'name' in msg and 'arguments' in msg; a block that raises is skipped
_extract_tool_calls(content) == SelectSeq(content.tc, Keeps)

ToolRegistry_can_handle(response) == Len(_extract_tool_calls(response)) > 0

\* what tool.execute(arguments) does, by the outcome the tool produces
ToolOutcomes == {"ok", "okbig", "fail", "failbig", "raise", "malformed"}

\* the outcomes of the tools in a run of the agent
RunOutcomes == {"ok", "fail", "raise", "malformed"}

ToolResult(name, outcome) ==
    [success |-> outcome \in {"ok", "okbig"},
     stdout  |-> IF outcome = "ok" THEN <<"out of", name>>
                 ELSE IF outcome = "okbig" THEN <<"out of", name, "BIG">> ELSE <<>>,
     stderr  |-> IF outcome = "fail" THEN <<"err of", name>>
                 ELSE IF outcome = "failbig" THEN <<"err of", name, "BIG">> ELSE <<>>]

InTable(name, tools) == \E i \in 1..Len(tools) : tools[i] = name

\* a variant of execute_tool without the lookup of the name
execute_tool_NoLookup(name, tools, outcome) == ToolResult(name, outcome)

\* tool = self.get_tool(name); the failure result if it is None, else tool.execute
execute_tool(name, tools, outcome) ==
    IF ~InTable(name, tools)
    THEN [success |-> FALSE,
          stdout  |-> <<>>,
          stderr  |-> <<"Tool", name, "does not exist, available tools:">> \o tools]
    ELSE ToolResult(name, outcome)

\* the report of a result: the non-empty parts joined, or the no-output text
Report(result) ==
    LET so == IF result.stdout # <<>> THEN <<"stdout:">> \o result.stdout ELSE <<>>
        se == IF result.stderr # <<>> THEN <<"stderr:">> \o result.stderr ELSE <<>>
    IN IF so \o se = <<>> THEN <<"no output and no error">> ELSE so \o se

FailureText == <<"tool call failed">>

\* str(e) of the exception caught by handle_tool_calls
ErrorOf(what) ==
    IF what = "raise" THEN "error raised by the tool"
    ELSE IF what = "malformed" THEN "KeyError"
    ELSE "TypeError"

\* the text of the except clause
Failure(what) == FailureText \o <<ErrorOf(what)>>

\* self.max_token_count of the registry: int(get_max_token_count() * 0.8)
RegistryBudget == (MaxTokenCount * 8) \div 10

Summarized(name, output, sumOK) ==
    IF sumOK THEN <<"output too long, summary follows", name, "summary">>
    ELSE <<"output too long", "first 300 characters preview">>

\* what the execution of a tool gave: nothing ran, it raised, or it returned
NotRun == [status |-> "none", success |-> FALSE, stdout |-> <<>>, stderr |-> <<>>]

Ran(status, res) ==
    [status |-> status, success |-> res.success, stdout |-> res.stdout, stderr |-> res.stderr]

\* [result: the text returned, exec: the tools whose execute ran, tres: what it gave]
handle_tool_calls(tool_call, tools, outcome, sumOK) ==
    IF tool_call.kind # "map"
    THEN [result |-> Failure("not a mapping"), exec |-> <<>>, tres |-> NotRun]
    ELSE IF tool_call.args = "raw"
    THEN [result |-> <<>>, exec |-> <<>>, tres |-> NotRun]
    ELSE IF ~InTable(tool_call.name, tools)
    THEN [result |-> Report(execute_tool(tool_call.name, tools, outcome)),
          exec   |-> <<>>,
          tres   |-> NotRun]
    ELSE IF outcome \in {"raise", "malformed"}
    THEN [result |-> Failure(outcome), exec |-> <<tool_call.name>>,
          tres |-> Ran(outcome, NotRun)]
    ELSE LET res == execute_tool(tool_call.name, tools, outcome)
             output == Report(res)
         IN [result |-> IF res.success /\ get_context_token_count(output) > RegistryBudget
                        THEN Summarized(tool_call.name, output, sumOK)
                        ELSE output,
             exec   |-> <<tool_call.name>>,
             tres   |-> Ran("returned", res)]

MultipleCallsText ==
    <<"Call failed: Handle multiple tool calls", "ONLY handle one tool call at a time">>

\* a variant of handle that refuses a single call as it refuses several
ToolRegistry_handle_RefusesOne(response, tools, outcome, sumOK) ==
    LET tool_calls == _extract_tool_calls(response)
    IN IF Len(tool_calls) >= 1
       THEN [fault  |-> \E i \in 1..Len(tool_calls) : tool_calls[i].kind # "map",
             term   |-> FALSE,
             result |-> MultipleCallsText,
             exec   |-> <<>>,
             tres   |-> NotRun]
       ELSE [fault |-> FALSE, term |-> FALSE, result |-> <<>>, exec |-> <<>>, tres |-> NotRun]

\* a variant in which a fault of the tool leaves handle_tool_calls and handle
ToolRegistry_handle_Propagates(response, tools, outcome, sumOK) ==
    LET tool_calls == _extract_tool_calls(response)
    IN IF Len(tool_calls) > 1
       THEN [fault  |-> \E i \in 1..Len(tool_calls) : tool_calls[i].kind # "map",
             term   |-> FALSE,
             result |-> MultipleCallsText,
             exec   |-> <<>>,
             tres   |-> NotRun]
       ELSE IF Len(tool_calls) = 0
       THEN [fault |-> FALSE, term |-> FALSE, result |-> <<>>, exec |-> <<>>, tres |-> NotRun]
       ELSE LET r == handle_tool_calls(tool_calls[1], tools, outcome, sumOK)
            IN [fault |-> r.tres.status \in {"raise", "malformed"}, term |-> FALSE,
                result |-> r.result, exec |-> r.exec, tres |-> r.tres]

\* [fault, term, result, exec, tres]: fault when handle itself raises
ToolRegistry_handle(response, tools, outcome, sumOK) ==
    LET tool_calls == _extract_tool_calls(response)
    IN IF Len(tool_calls) > 1
       THEN [fault  |-> \E i \in 1..Len(tool_calls) : tool_calls[i].kind # "map",
             term   |-> FALSE,
             result |-> MultipleCallsText,
             exec   |-> <<>>,
             tres   |-> NotRun]
       ELSE IF Len(tool_calls) = 0
       THEN [fault |-> FALSE, term |-> FALSE, result |-> <<>>, exec |-> <<>>, tres |-> NotRun]
       ELSE LET r == handle_tool_calls(tool_calls[1], tools, outcome, sumOK)
            IN [fault |-> FALSE, term |-> FALSE, result |-> r.result, exec |-> r.exec,
                tres |-> r.tres]

(***************************************************************************)
(* MultiAgent as an output handler (jarvis_multi_agent/__init__.py).       *)
(***************************************************************************)
\* re.findall of the blocks, yaml.safe_load of each, the membership test
\* 'to' in msg and 'content' in msg; a block that raises is skipped
_extract_send_msg(content) == SelectSeq(content.sm, Keeps)

\* the text of the message handle returns
MsgText(b) ==
    IF b.kind = "map" THEN <<"to", b.to, "content">> ELSE <<"text holding to and content">>

\* a variant of can_handle that accepts exactly one message
MultiAgent_can_handle_ExactlyOne(response) == Len(_extract_send_msg(response)) = 1

MultiAgent_can_handle(response) == Len(_extract_send_msg(response)) > 0

MultiAgent_handle(response) ==
    IF Len(_extract_send_msg(response)) > 1
    THEN [fault |-> FALSE, term |-> FALSE, exec |-> <<>>, tres |-> NotRun,
          result |-> <<"Send multiple messages, please only send one message at a time.">>]
    ELSE IF Len(_extract_send_msg(response)) = 0
    THEN [fault |-> FALSE, term |-> FALSE, exec |-> <<>>, tres |-> NotRun, result |-> <<>>]
    ELSE [fault |-> FALSE, term |-> TRUE, exec |-> <<>>, tres |-> NotRun,
          result |-> MsgText(_extract_send_msg(response)[1])]

(***************************************************************************)
(* PatchOutputHandler (jarvis_code_agent/patch.py).                        *)
(***************************************************************************)
\* re.findall of the blocks; a block without a File line or without code is
\* skipped; the result holds the patches of the others, by file
_parse_patch(patch_str) == SelectSeq(patch_str.pt, LAMBDA b : b.kind = "patch")

PatchOutputHandler_can_handle(response) == _parse_patch(response) # <<>>

(***************************************************************************)
(* Routing of a response to the output handlers.                           *)
(***************************************************************************)
can_handle(h, response) ==
    IF h = "TOOL_CALL" THEN ToolRegistry_can_handle(response)
    ELSE IF h = "PATCH" THEN PatchOutputHandler_can_handle(response)
    ELSE MultiAgent_can_handle(response)

handle(h, response, tools, outcome, sumOK) ==
    IF h = "TOOL_CALL" THEN ToolRegistry_handle(response, tools, outcome, sumOK)
    ELSE MultiAgent_handle(response)

NoAction ==
    [fault |-> FALSE, term |-> FALSE, result |-> <<>>, exec |-> <<>>, tres |-> NotRun,
     h |-> <<>>]

\* the handlers are offered the response in registration order; the first
\* whose can_handle is true gets handle invoked, and only that one
execute_tool_call(response, handlers, tools, outcome, sumOK) ==
    LET Match(h) == can_handle(h, response)
        m == SelectSeq(handlers, Match)
    IN IF m = <<>> THEN NoAction
       ELSE LET r == handle(m[1], response, tools, outcome, sumOK)
            IN [fault |-> r.fault, term |-> r.term, result |-> r.result,
                exec |-> r.exec, tres |-> r.tres, h |-> <<m[1]>>]

\* a variant of _call_tools that invokes every handler that matches
_call_tools_EveryMatch(response, handlers, tools, outcome, sumOK) ==
    LET Match(h) == can_handle(h, response)
        r == execute_tool_call(response, handlers, tools, outcome, sumOK)
    IN [r EXCEPT !.h = SelectSeq(handlers, Match)]

\* return execute_tool_call(response, self)
_call_tools(response, handlers, tools, outcome, sumOK) ==
    execute_tool_call(response, handlers, tools, outcome, sumOK)

_has_tool_calls(response, handlers) ==
    \E i \in 1..Len(handlers) : can_handle(handlers[i], response)

(***************************************************************************)
(* Agent: configuration and initial state.                                 *)
(***************************************************************************)
HandlerLists ==
    { <<"TOOL_CALL">>, <<"TOOL_CALL", "SEND_MESSAGE">>, <<"SEND_MESSAGE", "TOOL_CALL">> }

ToolTables == { <<"echo">>, <<"echo", "save_memory">> }

Config(hs, ts, ac, ns, ua, cb, ih, up) ==
    [ handlers      |-> hs,
      tools         |-> ts,
      auto_complete |-> ac,
      need_summary  |-> ns,
      use_analysis  |-> ua,
      cb            |-> cb,     \* an after_tool_call_cb is set
      ih            |-> ih,     \* an input handler is registered
      upload        |-> up ]    \* model.support_upload_files()

Configs ==
    { Config(<<"TOOL_CALL">>, <<"echo">>, FALSE, TRUE, FALSE, FALSE, FALSE, FALSE),
      Config(<<"TOOL_CALL", "SEND_MESSAGE">>, <<"echo", "save_memory">>,
             TRUE, TRUE, TRUE, TRUE, TRUE, FALSE),
      Config(<<"SEND_MESSAGE", "TOOL_CALL">>, <<"echo", "save_memory">>,
             TRUE, FALSE, FALSE, TRUE, TRUE, TRUE),
      Config(<<"TOOL_CALL", "SEND_MESSAGE">>, <<"echo">>,
             FALSE, FALSE, TRUE, FALSE, FALSE, TRUE) }

\* an entry of the tool table: the name it is registered under and the tool
Entry(name, tool) == [name |-> name, tool |-> tool]

\* the table of a registry that loaded the built-in tools of these names
TableOf(names) == [i \in 1..Len(names) |-> Entry(names[i], "builtin")]

\* the keys callers store user data under; None is what dict.get gives for
\* a key that is absent
Keys == {"k1", "k2"}

NoUserData == [k \in Keys |-> "None"]

\* the local msg of MultiAgent.run before the first agent has run
NoMsg == [kind |-> "none", to |-> "", text |-> <<>>]

Returned(v) == [how |-> "return", val |-> v]

NotReturned == [how |-> "none", val |-> <<>>]

TaskFailed == <<"Task failed">>

NewTurn ==
    [ h |-> <<>>, exec |-> <<>>, term |-> FALSE, result |-> <<>>, tres |-> NotRun,
      fault |-> FALSE, where |-> "none", rresp |-> NoResponse,
      cb |-> 0, sent |-> FALSE, early |-> FALSE, raised |-> "none",
      compacted |-> FALSE, ict |-> "none", ct |-> 0,
      pend |-> <<>>, pendKind |-> "none", routed |-> 0, handled |-> 0, can |-> FALSE,
      total |-> 0, asked |-> FALSE,
      turnNo |-> 0, restored |-> FALSE, setupRun |-> 0, setupTurn |-> 0,
      setupRestored |-> FALSE, aict |-> "none" ]

Init ==
    /\ cfg \in Configs
    /\ pc = "idle"
    /\ prompt = <<>>
    /\ addon = <<>>
    /\ convLen = 0
    /\ first = TRUE
    /\ rihNext = FALSE
    /\ rih = FALSE
    /\ interrupt = FALSE
    /\ resp = NoResponse
    /\ aresp = NoResponse
    /\ message = <<>>
    /\ retval = NotReturned
    /\ ctx = "loop"
    /\ autoc = FALSE
    /\ hist = 0
    /\ steps = 0
    /\ runs = 0
    /\ turn = NewTurn
    /\ tmp_file_name = ""
    /\ disk = {}
    /\ last_agent = ""
    /\ routed_msg = NoMsg
    /\ self_tools = TableOf(cfg.tools)
    /\ user_data = NoUserData

Raised == [how |-> "raise", val |-> <<>>]

\* a variant in which _complete_task is called outside the try of _main_loop
OnFault_CompletionEscapes(where) ==
    IF where = "complete" THEN Raised ELSE Returned(TaskFailed)

\* the except clauses of _main_loop and run: the fault becomes the run's result
OnFault(where) == Returned(TaskFailed)

\* what is known of the agent's life so far carries over to a new run
NewRun(t) ==
    [NewTurn EXCEPT !.restored = t.restored, !.setupRun = t.setupRun,
                    !.setupTurn = t.setupTurn, !.setupRestored = t.setupRestored]

\* Agent.run up to the call of _main_loop
StartRun ==
    /\ pc \in {"idle", "done"}
    /\ runs' = runs + 1
    /\ prompt' = <<"user input">>
    /\ rih' = TRUE
    /\ retval' = NotReturned
    /\ pc' = "loop"
    /\ turn' = NewRun(turn)
    /\ resp' = NoResponse
    /\ aresp' = NoResponse
    /\ message' = <<>>
    /\ ctx' = "loop"
    /\ UNCHANGED <<tmp_file_name, disk, last_agent, routed_msg, cfg, self_tools, user_data, addon, convLen, first, rihNext, interrupt, autoc, hist, steps>>

\* a call of Agent.run
Run ==
    /\ runs < MaxRuns
    /\ StartRun

\* _first_run: the priming text it appends to the prompt, by its outcome
_first_run(p, fr) == IF fr = "prime" THEN p \o <<"memory tags">> ELSE p

\* the number of a turn within its run: 1 for the first, 2 for every later one
TurnAfter(n) == IF n = 0 THEN 1 ELSE 2

\* the record of a new turn: what is still to be sent and the counts carry over
Fresh(t) ==
    [NewRun(t) EXCEPT !.pend = t.pend, !.pendKind = t.pendKind,
                      !.routed = t.routed, !.handled = t.handled,
                      !.turnNo = TurnAfter(t.turnNo)]

\* the record of a turn on which _first_run ran to its end
SetUp(t, run) ==
    [t EXCEPT !.setupRun = run, !.setupTurn = t.turnNo, !.setupRestored = t.restored]

\* a variant that runs the input handlers on every turn
RunInputHandlers_Always(local, flag) == TRUE

\* if self.run_input_handlers_next_turn: run_input_handlers = True
RunInputHandlers(local, flag) == local \/ flag

\* the top of an iteration of _main_loop, up to the call of _call_model
LoopTop ==
    /\ pc = "loop"
    /\ steps < MaxSteps
    /\ steps' = steps + 1
    /\ rih' = RunInputHandlers(rih, rihNext)
    /\ rihNext' = FALSE
    /\ \E fr \in (IF first THEN {"plain", "prime", "raise"} ELSE {"skip"}) :
         IF fr = "raise"
         THEN /\ pc' = "done"
              /\ retval' = OnFault("first_run")
              /\ turn' = [Fresh(turn) EXCEPT !.raised = "first_run"]
              /\ UNCHANGED <<prompt, first>>
         ELSE /\ pc' = "call"
              /\ prompt' = _first_run(prompt, fr)
              /\ first' = FALSE
              /\ turn' = IF first THEN SetUp(Fresh(turn), runs) ELSE Fresh(turn)
              /\ UNCHANGED retval
    /\ UNCHANGED <<tmp_file_name, disk, last_agent, routed_msg, cfg, self_tools, user_data, aresp, addon, convLen, interrupt, resp, message, ctx, autoc, hist, runs>>

(***************************************************************************)
(* _call_model: input handlers, addon, conversation length, the model.     *)
(***************************************************************************)
InputOutcomes == {"pass", "edit", "return", "raise"}

\* the message after the input handlers, by what the handler did
_process_input(msg, ih) == IF ih = "edit" THEN msg \o <<"handler text">> ELSE msg

make_default_addon_prompt(handlers) == <<"default addon: one action of">> \o handlers

\* a variant that appends the default addon after a caller-set one
_add_addon_prompt_Both(msg, ad, handlers) ==
    IF ad # <<>> THEN msg \o ad \o make_default_addon_prompt(handlers)
    ELSE msg \o make_default_addon_prompt(handlers)

_add_addon_prompt(msg, ad, handlers) ==
    IF ad # <<>> THEN msg \o ad ELSE msg \o make_default_addon_prompt(handlers)

CompactionOutcomes == {"ok", "nothing", "raise"}

\* the seed text of a compaction: the formatted summary, the pointer to the
\* uploaded history, or nothing; fault when the upload path raises
_summarize_and_clear_history(upload, comp) ==
    [fault |-> upload /\ comp = "raise",
     seed  |-> IF comp # "ok" THEN <<>>
               ELSE IF upload THEN <<"the uploaded file is the history">>
               ELSE <<"summary of the conversation so far">>]

\* a variant that keeps the running total after a compaction
_manage_conversation_length_KeepsTotal(msg, len, upload, comp) ==
    LET total == len + get_context_token_count(msg)
    IN IF total > MaxTokenCount
       THEN LET s == _summarize_and_clear_history(upload, comp)
                m == IF s.seed # <<>> THEN s.seed \o msg ELSE msg
            IN [fault |-> s.fault, compacted |-> TRUE, message |-> m, len |-> total]
       ELSE [fault |-> FALSE, compacted |-> FALSE, message |-> msg, len |-> total]

\* a variant that tests the length before the outgoing message is added
_manage_conversation_length_TestsBefore(msg, len, upload, comp) ==
    LET total == len + get_context_token_count(msg)
    IN IF len > MaxTokenCount
       THEN LET s == _summarize_and_clear_history(upload, comp)
                m == IF s.seed # <<>> THEN s.seed \o msg ELSE msg
            IN [fault |-> s.fault, compacted |-> TRUE, message |-> m,
                len |-> IF s.fault THEN 0 ELSE get_context_token_count(m)]
       ELSE [fault |-> FALSE, compacted |-> FALSE, message |-> msg, len |-> total]

\* [fault, compacted, message: what is sent, len: conversation_length afterwards]
_manage_conversation_length(msg, len, upload, comp) ==
    LET total == len + get_context_token_count(msg)
    IN IF total > MaxTokenCount
       THEN LET s == _summarize_and_clear_history(upload, comp)
                m == IF s.seed # <<>> THEN s.seed \o msg ELSE msg
            IN [fault |-> s.fault, compacted |-> TRUE, message |-> m,
                len |-> IF s.fault THEN 0 ELSE get_context_token_count(m)]
       ELSE [fault |-> FALSE, compacted |-> FALSE, message |-> msg, len |-> total]

\* a variant that hands the loop an empty response on an early return
AsResponse_Blank(text) == Response(<<>>, <<>>, FALSE, <<>>)

\* a text offered to the output handlers in place of a model response
AsResponse(text) == Response(<<>>, <<>>, FALSE, text)

\* _call_model up to _manage_conversation_length, or its early return
PrepareSend ==
    /\ pc = "call"
    /\ \E ih \in (IF rih /\ cfg.ih THEN InputOutcomes ELSE {"pass"}) :
         \/ /\ ih = "raise"
            /\ pc' = "done"
            /\ retval' = OnFault("input_handler")
            /\ turn' = [turn EXCEPT !.raised = "input_handler"]
            /\ UNCHANGED <<prompt, addon, convLen, rih, resp, message, hist>>
         \/ /\ ih = "return"
            /\ resp' = AsResponse(_process_input(prompt, ih))
            /\ prompt' = <<>>
            /\ rih' = FALSE
            /\ pc' = "check"
            /\ turn' = [turn EXCEPT !.early = TRUE]
            /\ UNCHANGED <<addon, convLen, message, hist, retval>>
         \/ /\ ih \in {"pass", "edit"}
            /\ LET msg == _add_addon_prompt(_process_input(prompt, ih), addon, cfg.handlers)
                   over == convLen + get_context_token_count(msg) > MaxTokenCount
               IN \E comp \in (IF over THEN CompactionOutcomes ELSE {"nothing"}) :
                    LET m == _manage_conversation_length(msg, convLen, cfg.upload, comp)
                    IN /\ addon' = <<>>
                       /\ convLen' = m.len
                       /\ hist' = IF m.compacted THEN 0 ELSE hist
                       /\ prompt' = IF m.compacted THEN <<>> ELSE prompt
                       /\ turn' = [turn EXCEPT !.compacted = m.compacted,
                                               !.total = convLen + get_context_token_count(msg),
                                               !.raised = IF m.fault THEN "compaction"
                                                          ELSE "none"]
                       /\ IF m.fault
                          THEN /\ pc' = "done"
                               /\ retval' = OnFault("compaction")
                               /\ UNCHANGED message
                          ELSE /\ pc' = "invoke"
                               /\ message' = m.message
                               /\ UNCHANGED retval
            /\ UNCHANGED <<rih, resp>>
    /\ UNCHANGED <<tmp_file_name, disk, last_agent, routed_msg, cfg, self_tools, user_data, aresp, first, rihNext, interrupt, ctx, autoc, steps, runs>>

\* _invoke_model, and the two assignments of _main_loop that follow _call_model
InvokeModel ==
    /\ pc = "invoke"
    /\ \/ /\ pc' = "done"
          /\ retval' = OnFault("model")
          /\ hist' = hist + get_context_token_count(message)
          /\ turn' = [turn EXCEPT !.raised = "model", !.total = 0]
          /\ UNCHANGED <<prompt, convLen, rih, resp>>
       \/ \E r \in ModelResponses :
            /\ resp' = r
            /\ hist' = hist + get_context_token_count(message) + ResponseTokens(r)
            /\ convLen' = convLen + ResponseTokens(r)
            /\ prompt' = <<>>
            /\ rih' = FALSE
            /\ pc' = "check"
            /\ turn' = [turn EXCEPT !.sent = TRUE, !.total = 0]
            /\ UNCHANGED retval
    /\ UNCHANGED <<tmp_file_name, disk, last_agent, routed_msg, cfg, self_tools, user_data, aresp, addon, first, rihNext, interrupt, message, ctx, autoc, steps, runs>>

\* another thread (a key press) sets the interrupt flag
SetInterrupt ==
    /\ pc \in {"call", "an_chat"}
    /\ ~interrupt
    /\ interrupt' = TRUE
    /\ UNCHANGED <<tmp_file_name, disk, last_agent, routed_msg, cfg, self_tools, user_data, aresp, pc, prompt, addon, convLen, first, rihNext, rih, resp, message,
                   retval, ctx, autoc, hist, steps, runs, turn>>

(***************************************************************************)
(* The interrupt checkpoint, the routing step and the end of a turn.       *)
(***************************************************************************)
Intervention == <<"interrupted by the user, who adds:", "intervention text">>

Agreed == Intervention \o <<"the user agreed to continue the tool call">>

Refused == Intervention \o <<"a tool call was detected but the user refused it">>

\* a variant that tells the model the call went ahead when it was declined
InterruptPrompt_AlwaysAgreed(has_calls, proceed) ==
    IF has_calls THEN Agreed ELSE Intervention

\* the prompt _handle_run_interrupt sets for a non-empty intervention text
InterruptPrompt(has_calls, proceed) ==
    IF has_calls THEN (IF proceed THEN Agreed ELSE Refused) ELSE Intervention

\* _handle_run_interrupt, and what _main_loop does with its result
Check ==
    /\ pc = "check"
    /\ \/ /\ ~interrupt
          /\ pc' = "route"
          /\ turn' = [turn EXCEPT !.pend = <<>>, !.pendKind = "none"]
          /\ UNCHANGED <<prompt, rih, interrupt, ctx, autoc>>
       \/ /\ interrupt
          /\ interrupt' = FALSE
          /\ \/ /\ ctx' = "interrupt"
                /\ autoc' = FALSE
                /\ pc' = "ct_start"
                /\ turn' = [turn EXCEPT !.ict = "empty", !.pend = <<>>, !.pendKind = "none"]
                /\ UNCHANGED <<prompt, rih>>
             \/ /\ _has_tool_calls(resp, cfg.handlers)
                /\ prompt' = InterruptPrompt(TRUE, TRUE)
                /\ pc' = "route"
                /\ turn' = [turn EXCEPT !.ict = "approved", !.pend = <<>>, !.pendKind = "none"]
                /\ UNCHANGED <<rih, ctx, autoc>>
             \/ /\ _has_tool_calls(resp, cfg.handlers)
                /\ prompt' = InterruptPrompt(TRUE, FALSE)
                /\ rih' = TRUE
                /\ pc' = "loop"
                /\ turn' = [turn EXCEPT !.ict = "declined", !.pend = prompt',
                                        !.pendKind = "declined"]
                /\ UNCHANGED <<ctx, autoc>>
             \/ /\ ~_has_tool_calls(resp, cfg.handlers)
                /\ prompt' = InterruptPrompt(FALSE, FALSE)
                /\ rih' = TRUE
                /\ pc' = "loop"
                /\ turn' = [turn EXCEPT !.ict = "plain", !.pend = prompt',
                                        !.pendKind = "plain"]
                /\ UNCHANGED <<ctx, autoc>>
    /\ message' = <<>>
    /\ UNCHANGED <<tmp_file_name, disk, last_agent, routed_msg, cfg, self_tools, user_data, aresp, addon, convLen, first, rihNext, resp, retval, hist, steps, runs>>

\* what a tool or a callback may ask of the agent while it runs
Effects == {"none", "run_input_handlers_next_turn", "set_addon_prompt"}

\* the addon a caller sets with set_addon_prompt
CallerAddon == <<"caller addon">>

\* the turn's record of a routed response
Routed(t, r, response, where) ==
    LET fed == where = "main" /\ Len(r.h) > 0 /\ ~r.term /\ r.result # <<>> /\ ~r.fault
    IN [t EXCEPT !.h = r.h, !.exec = r.exec, !.term = r.term, !.result = r.result,
                 !.tres = r.tres, !.fault = r.fault, !.where = where,
                 !.raised = IF where = "main" /\ r.fault THEN "handler" ELSE "none",
                 !.rresp = response,
                 !.routed = t.routed + 1, !.handled = t.handled + Len(r.h),
                 !.pend = IF fed THEN r.result ELSE <<>>,
                 !.pendKind = IF fed THEN "result" ELSE "none"]

\* a variant that never returns the handler's result from the loop
need_return_Never(r) == FALSE

\* the first component of what _call_tools returns
need_return(r) == r.term

\* need_return, self.session.prompt = self._call_tools(current_response)
Route ==
    /\ pc = "route"
    /\ \E outcome \in RunOutcomes, sumOK \in BOOLEAN, eff \in Effects :
         LET r == _call_tools(resp, cfg.handlers, cfg.tools, outcome, sumOK)
         IN /\ (r.exec = <<>> => outcome = "ok" /\ eff = "none")
            /\ (outcome # "okbig" => sumOK)
            /\ turn' = Routed(turn, r, resp, "main")
            /\ IF r.fault
               THEN /\ pc' = "done"
                    /\ retval' = OnFault("handler")
                    /\ UNCHANGED <<prompt, addon, rihNext>>
               ELSE /\ prompt' = r.result
                    /\ addon' = IF eff = "set_addon_prompt" THEN CallerAddon ELSE addon
                    /\ rihNext' = (rihNext \/ eff = "run_input_handlers_next_turn")
                    /\ IF need_return(r)
                       THEN pc' = "done" /\ retval' = Returned(r.result)
                       ELSE pc' = "after" /\ UNCHANGED retval
    /\ UNCHANGED <<tmp_file_name, disk, last_agent, routed_msg, cfg, self_tools, user_data, aresp, convLen, first, rih, interrupt, resp, message, ctx, autoc, hist, steps, runs>>

\* a variant that continues only on an addon prompt
ShouldContinue_AddonOnly(p, a) == a # <<>>

\* if self.session.prompt or self.session.addon_prompt: continue
ShouldContinue(p, a) == p # <<>> \/ a # <<>>

\* a variant that completes on the marker whatever the configuration
AutoCompletes_MarkerOnly(ac, response) == response.mark

\* if self.auto_complete and ot("!!!COMPLETE!!!") in current_response
AutoCompletes(ac, response) == ac /\ response.mark

\* the rest of the iteration: callback, continue, auto-complete or ask the user
AfterTools ==
    /\ pc = "after"
    /\ \/ /\ cfg.cb
          /\ pc' = "done"
          /\ retval' = OnFault("callback")
          /\ turn' = [turn EXCEPT !.cb = turn.cb + 1, !.raised = "callback"]
          /\ UNCHANGED <<ctx, autoc>>
       \/ /\ turn' = [turn EXCEPT !.cb = turn.cb + (IF cfg.cb THEN 1 ELSE 0)]
          /\ IF ShouldContinue(prompt, addon)
             THEN pc' = "loop" /\ UNCHANGED <<ctx, autoc>>
             ELSE IF AutoCompletes(cfg.auto_complete, resp)
             THEN pc' = "ct_start" /\ ctx' = "loop" /\ autoc' = TRUE
             ELSE pc' = "ask" /\ UNCHANGED <<ctx, autoc>>
          /\ UNCHANGED retval
    /\ resp' = NoResponse
    /\ UNCHANGED <<tmp_file_name, disk, last_agent, routed_msg, cfg, self_tools, user_data, aresp, prompt, addon, convLen, first, rihNext, rih, interrupt,
                   message, hist, steps, runs>>

\* a non-empty line typed at the prompt of _get_next_user_action
NextInstruction == <<"next instruction">>

\* _get_next_user_action and the branch of _main_loop on its result
AskUser ==
    /\ pc = "ask"
    /\ \/ /\ prompt' = NextInstruction
          /\ rih' = TRUE
          /\ pc' = "loop"
          /\ turn' = [turn EXCEPT !.asked = TRUE, !.pend = NextInstruction,
                                  !.pendKind = "instruction"]
          /\ UNCHANGED <<ctx, autoc>>
       \/ /\ pc' = "ct_start"
          /\ ctx' = "loop"
          /\ autoc' = FALSE
          /\ turn' = [turn EXCEPT !.asked = TRUE]
          /\ UNCHANGED <<prompt, rih>>
    /\ UNCHANGED <<tmp_file_name, disk, last_agent, routed_msg, cfg, self_tools, user_data, aresp, addon, convLen, first, rihNext, interrupt, resp, message,
                   retval, hist, steps, runs>>

(***************************************************************************)
(* _complete_task.                                                         *)
(***************************************************************************)
TaskDone == <<"task done">>

\* the return of _complete_task to its caller: _main_loop returns it, except
\* that the interrupt checkpoint returns it only when it is truthy
CtReturn(v) ==
    IF ctx = "loop" \/ v # <<>>
    THEN pc' = "done" /\ retval' = Returned(v)
    ELSE pc' = "route" /\ UNCHANGED retval

\* satisfaction_feedback, by the human's answer to the satisfaction check
SatisfactionFeedback(sat) ==
    IF sat = "skip" THEN <<>>
    ELSE IF sat = "feedback" THEN <<"not satisfied", "feedback text">>
    ELSE <<sat>>

\* the turn's record when _complete_task starts: the last routing is not kept
Forgotten(t) ==
    [t EXCEPT !.ct = t.ct + 1, !.h = <<>>, !.exec = <<>>, !.term = FALSE, !.result = <<>>,
              !.tres = NotRun, !.fault = FALSE, !.where = "none", !.rresp = NoResponse]

\* the satisfaction check and the choice between analysis and memory save
CompleteStart ==
    /\ pc = "ct_start"
    /\ \E sat \in (IF ~autoc /\ cfg.use_analysis
                   THEN {"satisfied", "feedback", "no feedback", "raise"} ELSE {"skip"}) :
         IF sat = "raise"
         THEN /\ pc' = "done"
              /\ retval' = OnFault("complete")
              /\ turn' = [Forgotten(turn) EXCEPT !.raised = "complete"]
              /\ UNCHANGED prompt
         ELSE /\ turn' = Forgotten(turn)
              /\ IF cfg.use_analysis
                 THEN /\ pc' = "an_chat"
                      /\ prompt' = <<"analysis prompt">> \o SatisfactionFeedback(sat)
                 ELSE pc' = "ct_mem" /\ UNCHANGED prompt
              /\ UNCHANGED retval
    /\ autoc' = FALSE
    /\ UNCHANGED <<tmp_file_name, disk, last_agent, routed_msg, cfg, self_tools, user_data, aresp, addon, convLen, first, rihNext, rih, interrupt, resp, message,
                   ctx, hist, steps, runs>>

\* what follows _analysis_task in _complete_task
AfterAnalysis ==
    IF cfg.need_summary THEN pc' = "ct_mem" /\ UNCHANGED retval ELSE CtReturn(TaskDone)

\* _process_analysis_loop: the model call of an iteration
AnalysisChat ==
    /\ pc = "an_chat"
    /\ steps < MaxSteps
    /\ steps' = steps + 1
    /\ \/ /\ AfterAnalysis
          /\ UNCHANGED <<prompt, aresp, hist>>
       \/ \E r \in ModelResponses :
            /\ aresp' = r
            /\ hist' = hist + get_context_token_count(prompt) + ResponseTokens(r)
            /\ prompt' = <<>>
            /\ pc' = "an_step"
            /\ UNCHANGED retval
    /\ turn' = [turn EXCEPT !.aict = "none"]
    /\ UNCHANGED <<tmp_file_name, disk, last_agent, routed_msg, cfg, self_tools, user_data, resp, addon, convLen, first, rihNext, rih, interrupt, message,
                   ctx, autoc, runs>>

\* _handle_analysis_interrupt for a non-empty intervention text: what the
\* human answers, by whether a handler can handle the response
AnalysisInterventions(interrupted, has_calls) ==
    IF ~interrupted THEN {"none"}
    ELSE IF has_calls THEN {"approved", "declined"} ELSE {"plain"}

\* the prompt _handle_analysis_interrupt leaves in the session
AnalysisInterruptPrompt(ia, p) ==
    IF ia = "none" THEN p
    ELSE InterruptPrompt(ia \in {"approved", "declined"}, ia = "approved")

\* a variant of the loop that a terminating handler ends
AnalysisContinues_UnlessTerminate(r, p) == p # <<>> /\ ~r.term

\* if not self.session.prompt: break
AnalysisContinues(r, p) == p # <<>>

\* _process_analysis_loop: the interrupt check and the tool call of an
\* iteration; the tool call follows every interrupt that is not answered with
\* an empty text, and its result replaces the prompt the interrupt has set
AnalysisStep ==
    /\ pc = "an_step"
    /\ interrupt' = FALSE
    /\ \/ /\ interrupt
          /\ AfterAnalysis
          /\ UNCHANGED <<prompt, turn>>
       \/ \E ia \in AnalysisInterventions(interrupt, _has_tool_calls(aresp, cfg.handlers)),
             outcome \in RunOutcomes, sumOK \in BOOLEAN :
            LET r == _call_tools(aresp, cfg.handlers, cfg.tools, outcome, sumOK)
                set == AnalysisInterruptPrompt(ia, prompt)
            IN /\ (r.exec = <<>> => outcome = "ok")
               /\ (outcome # "okbig" => sumOK)
               /\ turn' = Routed([turn EXCEPT !.aict = ia], r, aresp, "analysis")
               /\ IF r.fault
                  THEN AfterAnalysis /\ prompt' = set
                  ELSE /\ prompt' = r.result
                       /\ IF AnalysisContinues(r, r.result)
                          THEN pc' = "an_chat" /\ UNCHANGED retval
                          ELSE AfterAnalysis
    /\ UNCHANGED <<tmp_file_name, disk, last_agent, routed_msg, cfg, self_tools, user_data, aresp, addon, convLen, first, rihNext, rih, resp, message,
                   ctx, autoc, hist, steps, runs>>

MemoryPrompt == <<"review the task and save what is worth remembering">>

\* what follows _prompt_memory_save in _complete_task
AfterMemory ==
    IF cfg.need_summary THEN pc' = "ct_sum" /\ UNCHANGED retval ELSE CtReturn(TaskDone)

\* _prompt_memory_save
MemorySave ==
    /\ pc = "ct_mem"
    /\ AfterMemory
    /\ IF ~InTable("TOOL_CALL", cfg.handlers) \/ ~InTable("save_memory", cfg.tools)
       THEN UNCHANGED hist /\ turn' = [turn EXCEPT !.aict = "none"]
       ELSE \/ UNCHANGED hist /\ turn' = [turn EXCEPT !.aict = "none"]
            \/ \E r \in ModelResponses, outcome \in RunOutcomes, sumOK \in BOOLEAN :
                 LET c == _call_tools(r, cfg.handlers, cfg.tools, outcome, sumOK)
                 IN /\ (c.exec = <<>> => outcome = "ok")
                    /\ (outcome # "okbig" => sumOK)
                    /\ hist' = hist + get_context_token_count(MemoryPrompt) + ResponseTokens(r)
                    /\ turn' = Routed([turn EXCEPT !.aict = "none"], c, r, "memory")
    /\ UNCHANGED <<tmp_file_name, disk, last_agent, routed_msg, cfg, self_tools, user_data, aresp, prompt, addon, convLen, first, rihNext, rih, interrupt, resp,
                   message, ctx, autoc, steps, runs>>

SummaryPrompt == <<"summary prompt">>

\* the final summary request of _complete_task
Summary ==
    /\ pc = "ct_sum"
    /\ prompt' = SummaryPrompt
    /\ \/ /\ pc' = "done"
          /\ retval' = OnFault("complete")
          /\ turn' = [turn EXCEPT !.raised = "complete"]
          /\ UNCHANGED hist
       \/ \E ret \in {<<"final summary">>, <<>>} :
            /\ CtReturn(ret)
            /\ hist' = hist + get_context_token_count(SummaryPrompt)
                            + get_context_token_count(ret)
            /\ UNCHANGED turn
    /\ UNCHANGED <<tmp_file_name, disk, last_agent, routed_msg, cfg, self_tools, user_data, aresp, addon, convLen, first, rihNext, rih, interrupt, resp, message,
                   ctx, autoc, steps, runs>>

Next ==
    \/ Run
    \/ LoopTop
    \/ PrepareSend
    \/ InvokeModel
    \/ SetInterrupt
    \/ Check
    \/ Route
    \/ AfterTools
    \/ AskUser
    \/ CompleteStart
    \/ AnalysisChat
    \/ AnalysisStep
    \/ MemorySave
    \/ Summary

Spec == Init /\ [][Next]_vars

(***************************************************************************)
(* The life of one Agent over several calls: run is called again after it  *)
(* has returned, and restore_session is called between the runs.           *)
(***************************************************************************)
MaxCalls == MaxRuns + 1

\* a call of Agent.run on an agent whose earlier run has returned
RunAgain ==
    /\ pc = "done"
    /\ runs >= MaxRuns
    /\ runs < MaxCalls
    /\ StartRun

\* Agent.restore_session: the session manager restores the saved session or
\* reports that it could not
restore_session ==
    /\ pc \in {"idle", "done"}
    /\ ~turn.restored
    /\ \E ok \in BOOLEAN :
         IF ok
         THEN /\ first' = FALSE
              /\ turn' = [turn EXCEPT !.restored = TRUE]
         ELSE UNCHANGED <<first, turn>>
    /\ UNCHANGED <<tmp_file_name, disk, last_agent, routed_msg, cfg, self_tools, user_data,
                   pc, prompt, addon, convLen, rihNext, rih, interrupt, resp, aresp,
                   message, retval, ctx, autoc, hist, steps, runs>>

FirstRunNext ==
    \/ Next
    \/ RunAgain
    \/ restore_session

FirstRunSpec == Init /\ [][FirstRunNext]_vars

(***************************************************************************)
(* One turn of the main loop from the call of _call_model on, for any      *)
(* prompt, any pending addon prompt and any conversation length the        *)
(* session can hold when a turn starts.                                    *)
(***************************************************************************)
TurnPrompts == { <<"user input">>, NextInstruction, <<"out of", "echo">> }

TurnInit ==
    /\ cfg \in Configs
    /\ pc = "call"
    /\ prompt \in TurnPrompts
    /\ addon \in {<<>>, CallerAddon}
    /\ convLen \in {0, MaxTokenCount - 1}
    /\ first = FALSE
    /\ rihNext = FALSE
    /\ rih \in BOOLEAN
    /\ interrupt = FALSE
    /\ resp = NoResponse
    /\ aresp = NoResponse
    /\ message = <<>>
    /\ retval = NotReturned
    /\ ctx = "loop"
    /\ autoc = FALSE
    /\ hist = convLen
    /\ steps = MaxSteps
    /\ runs = MaxRuns
    /\ turn = Fresh(NewTurn)
    /\ tmp_file_name = ""
    /\ disk = {}
    /\ last_agent = ""
    /\ routed_msg = NoMsg
    /\ self_tools = TableOf(cfg.tools)
    /\ user_data = NoUserData

TurnNext ==
    \/ PrepareSend
    \/ InvokeModel
    \/ SetInterrupt
    \/ Check
    \/ Route
    \/ AfterTools

TurnSpec == TurnInit /\ [][TurnNext]_vars

(***************************************************************************)
(* The handlers on their own: handle applied to any response, with any     *)
(* tool table and any behaviour of the tool.                               *)
(***************************************************************************)
DispatchTables == { <<"echo">>, <<"echo", "save_memory">>, <<"save_memory">> }

DispatchInit ==
    /\ cfg \in { Config(<<"TOOL_CALL", "SEND_MESSAGE">>, t, FALSE, FALSE, FALSE, FALSE,
                        FALSE, FALSE) : t \in DispatchTables }
    /\ pc = "handler idle"
    /\ prompt = <<>>
    /\ addon = <<>>
    /\ convLen = 0
    /\ first = TRUE
    /\ rihNext = FALSE
    /\ rih = FALSE
    /\ interrupt = FALSE
    /\ resp = NoResponse
    /\ aresp = NoResponse
    /\ message = <<>>
    /\ retval = NotReturned
    /\ ctx = "loop"
    /\ autoc = FALSE
    /\ hist = 0
    /\ steps = 0
    /\ runs = 0
    /\ turn = NewTurn
    /\ tmp_file_name = ""
    /\ disk = {}
    /\ last_agent = ""
    /\ routed_msg = NoMsg
    /\ self_tools = TableOf(cfg.tools)
    /\ user_data = NoUserData

\* ToolRegistry.handle(response)
DispatchTool ==
    /\ pc = "handler idle"
    /\ \E r \in Responses, outcome \in ToolOutcomes, sumOK \in BOOLEAN :
         LET c == ToolRegistry_handle(r, cfg.tools, outcome, sumOK)
         IN turn' = [NewTurn EXCEPT !.h = <<"TOOL_CALL">>, !.exec = c.exec, !.term = c.term,
                                    !.result = c.result, !.tres = c.tres, !.fault = c.fault,
                                    !.where = "handle", !.rresp = r]
    /\ pc' = "handler returned"
    /\ UNCHANGED <<tmp_file_name, disk, last_agent, routed_msg, cfg, self_tools, user_data, prompt, addon, convLen, first, rihNext, rih, interrupt, resp, aresp,
                   message, retval, ctx, autoc, hist, steps, runs>>

\* MultiAgent.handle(response)
DispatchMessage ==
    /\ pc = "handler idle"
    /\ \E r \in Responses :
         LET c == MultiAgent_handle(r)
         IN turn' = [NewTurn EXCEPT !.h = <<"SEND_MESSAGE">>, !.exec = c.exec, !.term = c.term,
                                    !.result = c.result, !.tres = c.tres, !.fault = c.fault,
                                    !.where = "handle", !.rresp = r]
    /\ pc' = "handler returned"
    /\ UNCHANGED <<tmp_file_name, disk, last_agent, routed_msg, cfg, self_tools, user_data, prompt, addon, convLen, first, rihNext, rih, interrupt, resp, aresp,
                   message, retval, ctx, autoc, hist, steps, runs>>

\* what a handler can reach: the tool table, the files, the session of the
\* agent and the message being routed
World ==
    [tools |-> self_tools, files |-> disk, prompt |-> prompt, addon |-> addon,
     convLen |-> convLen, user_data |-> user_data, routed |-> routed_msg]

\* a variant in which can_handle carries the action out in order to answer
can_handle_call_Handles(h, response, w) ==
    [ret   |-> can_handle(h, response),
     exec  |-> IF h = "TOOL_CALL"
               THEN ToolRegistry_handle(response, cfg.tools, "ok", TRUE).exec ELSE <<>>,
     world |-> IF h = "PATCH"
               THEN [w EXCEPT !.files = w.files \cup
                        {_parse_patch(response)[i].file : i \in 1..Len(_parse_patch(response))}]
               ELSE IF h = "SEND_MESSAGE" /\ MultiAgent_handle(response).term
               THEN [w EXCEPT !.routed = [kind |-> "dict",
                                          to   |-> _extract_send_msg(response)[1].to,
                                          text |-> MultiAgent_handle(response).result]]
               ELSE w]

\* a call of can_handle: its answer, the tools it ran and the world it leaves
can_handle_call(h, response, w) ==
    [ret |-> can_handle(h, response), exec |-> <<>>, world |-> w]

\* handler.can_handle(response), for any of the three handlers
DispatchCanHandle ==
    /\ pc = "handler idle"
    /\ \E r \in Responses, h \in {"TOOL_CALL", "SEND_MESSAGE", "PATCH"} :
         LET c == can_handle_call(h, r, World)
         IN /\ self_tools' = c.world.tools
            /\ disk' = c.world.files
            /\ prompt' = c.world.prompt
            /\ addon' = c.world.addon
            /\ convLen' = c.world.convLen
            /\ user_data' = c.world.user_data
            /\ routed_msg' = c.world.routed
            /\ turn' = [NewTurn EXCEPT !.h = <<h>>, !.exec = c.exec, !.can = c.ret,
                                       !.where = "can_handle", !.rresp = r]
    /\ pc' = "handler returned"
    /\ UNCHANGED <<tmp_file_name, last_agent, cfg, first, rihNext, rih, interrupt, resp, aresp,
                   message, retval, ctx, autoc, hist, steps, runs>>

\* the next response is offered
DispatchAgain ==
    /\ pc = "handler returned"
    /\ pc' = "handler idle"
    /\ turn' = NewTurn
    /\ UNCHANGED <<tmp_file_name, disk, last_agent, routed_msg, cfg, self_tools, user_data, prompt, addon, convLen, first, rihNext, rih, interrupt, resp, aresp,
                   message, retval, ctx, autoc, hist, steps, runs>>

DispatchNext == DispatchTool \/ DispatchMessage \/ DispatchCanHandle \/ DispatchAgain

DispatchSpec == DispatchInit /\ [][DispatchNext]_vars

(***************************************************************************)
(* _handle_history_with_file_upload, statement by statement.               *)
(***************************************************************************)
UploadSeed == <<"the uploaded file is the history">>

\* the sessions on which the compaction is called: the pending prompt and
\* the tokens exchanged so far
UploadPrompts == { <<>>, <<"user input">>, <<"stdout:", "out of", "echo">> }

UploadInit ==
    /\ cfg \in { c \in Configs : c.upload }
    /\ pc = "upload idle"
    /\ prompt \in UploadPrompts
    /\ addon = <<>>
    /\ hist \in {MaxTokenCount, MaxTokenCount + 1}
    /\ convLen = hist
    /\ first = FALSE
    /\ rihNext = FALSE
    /\ rih = FALSE
    /\ interrupt = FALSE
    /\ resp = NoResponse
    /\ aresp = NoResponse
    /\ message = <<>>
    /\ retval = NotReturned
    /\ ctx = "loop"
    /\ autoc = FALSE
    /\ steps = 0
    /\ runs = 0
    /\ turn = NewTurn
    /\ tmp_file_name = ""
    /\ disk = {}
    /\ last_agent = ""
    /\ routed_msg = NoMsg
    /\ self_tools = TableOf(cfg.tools)
    /\ user_data = NoUserData

\* the name tempfile gives the n-th file
TmpName(n) == <<"tmp0", "tmp1", "tmp2", "tmp3", "tmp4">>[n + 1]

\* the statement of the try block that raised; the finally clause runs next
UploadRaise(where) ==
    /\ pc' = "upload finally"
    /\ retval' = Raised
    /\ turn' = [turn EXCEPT !.raised = where]

\* tmp_file = tempfile.NamedTemporaryFile(delete=False, ...); tmp_file_name = tmp_file.name
UploadCreate ==
    /\ pc = "upload idle"
    /\ \/ /\ UploadRaise("tempfile")
          /\ UNCHANGED <<tmp_file_name, disk>>
       \/ /\ tmp_file_name' = TmpName(steps)
          /\ disk' = disk \cup {TmpName(steps)}
          /\ pc' = "upload created"
          /\ UNCHANGED <<retval, turn>>
    /\ UNCHANGED <<last_agent, routed_msg, cfg, self_tools, user_data, prompt, addon, convLen, first, rihNext, rih, interrupt, resp, aresp,
                   message, ctx, autoc, hist, steps, runs>>

\* tmp_file.write(self.session.prompt); tmp_file.close()
UploadWrite ==
    /\ pc = "upload created"
    /\ \/ UploadRaise("write")
       \/ pc' = "upload written" /\ UNCHANGED <<retval, turn>>
    /\ UNCHANGED <<tmp_file_name, disk, last_agent, routed_msg, cfg, self_tools, user_data, prompt, addon, convLen, first, rihNext, rih,
                   interrupt, resp, aresp, message, ctx, autoc, hist, steps, runs>>

\* self.clear_history()
UploadClear ==
    /\ pc = "upload written"
    /\ \/ /\ UploadRaise("clear_history")
          /\ UNCHANGED <<prompt, convLen, hist>>
       \/ /\ prompt' = <<>>
          /\ convLen' = 0
          /\ hist' = 0
          /\ pc' = "upload cleared"
          /\ UNCHANGED <<retval, turn>>
    /\ UNCHANGED <<tmp_file_name, disk, last_agent, routed_msg, cfg, self_tools, user_data, addon, first, rihNext, rih, interrupt, resp,
                   aresp, message, ctx, autoc, steps, runs>>

\* if self.model and self.model.upload_files([tmp_file_name]): return ... else: return ""
UploadSend ==
    /\ pc = "upload cleared"
    /\ \/ UploadRaise("upload_files")
       \/ \E uploaded \in BOOLEAN :
            /\ retval' = Returned(IF uploaded THEN UploadSeed ELSE <<>>)
            /\ pc' = "upload finally"
            /\ UNCHANGED turn
    /\ UNCHANGED <<tmp_file_name, disk, last_agent, routed_msg, cfg, self_tools, user_data, prompt, addon, convLen, first, rihNext, rih,
                   interrupt, resp, aresp, message, ctx, autoc, hist, steps, runs>>

\* a variant of the finally clause that removes nothing
remove_tmp_Never(name, files) == files

\* if tmp_file_name and os.path.exists(tmp_file_name): os.remove(tmp_file_name)
remove_tmp(name, files) ==
    IF name # "" /\ name \in files THEN files \ {name} ELSE files

\* the finally clause, and the exit of the function by return or by the exception
UploadFinally ==
    /\ pc = "upload finally"
    /\ disk' = remove_tmp(tmp_file_name, disk)
    /\ pc' = "upload exit"
    /\ UNCHANGED <<tmp_file_name, last_agent, routed_msg, cfg, self_tools, user_data, prompt, addon, convLen, first, rihNext, rih, interrupt,
                   resp, aresp, message, retval, ctx, autoc, hist, steps, runs, turn>>

\* the conversation goes on and the next compaction is called
UploadAgain ==
    /\ pc = "upload exit"
    /\ steps < MaxSteps
    /\ steps' = steps + 1
    /\ pc' = "upload idle"
    /\ \E p \in UploadPrompts : prompt' = p
    /\ hist' = MaxTokenCount
    /\ convLen' = MaxTokenCount
    /\ tmp_file_name' = ""
    /\ retval' = NotReturned
    /\ turn' = NewTurn
    /\ UNCHANGED <<disk, last_agent, routed_msg, cfg, self_tools, user_data, addon, first, rihNext, rih, interrupt, resp, aresp, message,
                   ctx, autoc, runs>>

UploadNext ==
    \/ UploadCreate
    \/ UploadWrite
    \/ UploadClear
    \/ UploadSend
    \/ UploadFinally
    \/ UploadAgain

UploadSpec == UploadInit /\ [][UploadNext]_vars

(***************************************************************************)
(* MultiAgent.run: the coordinator of the agents.                          *)
(***************************************************************************)
\* the keys of self.agents, in the order of the configurations
AgentNames == <<"A", "B", "C">>

main_agent_name == "A"

IsAgent(name) == \E i \in 1..Len(AgentNames) : AgentNames[i] = name

\* the name attribute of the agent registered under a key
AgentName(key) == key

\* what Agent.run may return to the coordinator: the message of a
\* send-message action, a text, or the empty text
AgentReturns ==
    { [kind |-> "dict", to |-> t, text |-> <<"to", t, "content">>] :
          t \in {"A", "B", "C", "nobody"} }
    \cup { [kind |-> "str", to |-> "", text |-> <<"final summary">>],
           [kind |-> "str", to |-> "", text |-> TaskFailed],
           [kind |-> "str", to |-> "", text |-> <<>>] }

\* what the coordinator did last: the agent it invoked, the agent whose run
\* had returned the message it acted on, whether the recipient was unknown,
\* the recipient the message named, and whether the message came from a
\* retry after an unknown recipient
CoordTurn(invoked, sender, unknown, handoffs, to, afterRetry) ==
    [invoked |-> invoked, sender |-> sender, unknown |-> unknown, handoffs |-> handoffs,
     to |-> to, afterRetry |-> afterRetry]

CoordInit ==
    /\ cfg \in { c \in Configs : c.handlers = <<"TOOL_CALL", "SEND_MESSAGE">> }
    /\ pc = "coord idle"
    /\ prompt = <<>>
    /\ addon = <<>>
    /\ convLen = 0
    /\ first = TRUE
    /\ rihNext = FALSE
    /\ rih = FALSE
    /\ interrupt = FALSE
    /\ resp = NoResponse
    /\ aresp = NoResponse
    /\ message = <<>>
    /\ retval = NotReturned
    /\ ctx = "loop"
    /\ autoc = FALSE
    /\ hist = 0
    /\ steps = 0
    /\ runs = 0
    /\ turn = CoordTurn("", "", FALSE, 0, "", FALSE)
    /\ tmp_file_name = ""
    /\ disk = {}
    /\ last_agent = ""
    /\ routed_msg = NoMsg
    /\ self_tools = TableOf(cfg.tools)
    /\ user_data = NoUserData

\* last_agent = self.main_agent_name; msg = self.agents[self.main_agent_name].run(user_input)
CoordStart ==
    /\ pc = "coord idle"
    /\ last_agent' = main_agent_name
    /\ prompt' = <<"user input">>
    /\ \E m \in AgentReturns : routed_msg' = m
    /\ turn' = CoordTurn(main_agent_name, "", FALSE, 0, "", FALSE)
    /\ pc' = "coord loop"
    /\ UNCHANGED <<tmp_file_name, disk, cfg, self_tools, user_data, addon, convLen, first, rihNext, rih, interrupt,
                   resp, aresp, message, retval, ctx, autoc, hist, steps, runs>>

\* the prompt for the sender when the recipient is unknown
NotFoundPrompt(to) == <<"agent not found:", to, "available agents:">> \o AgentNames

\* a variant that names the main agent as the sender of every message
HandOffPrompt_FromMain(from) ==
    <<"Please handle this message", "from:", main_agent_name, "content">>

\* the prompt for the recipient of a message
HandOffPrompt(from) == <<"Please handle this message", "from:", from, "content">>

\* a variant that keeps the first agent as the sender for ever
NextLastAgent_Stale(last, to) == last

\* last_agent = self.agents[msg['to']].name
NextLastAgent(last, to) == AgentName(to)

\* one iteration of the while loop, or its end
CoordStep ==
    /\ pc = "coord loop"
    /\ IF routed_msg.text = <<>>
       THEN /\ pc' = "coord done"
            /\ retval' = Returned(<<>>)
            /\ UNCHANGED <<last_agent, routed_msg, prompt, turn>>
       ELSE IF routed_msg.kind = "str"
       THEN /\ pc' = "coord done"
            /\ retval' = Returned(routed_msg.text)
            /\ UNCHANGED <<last_agent, routed_msg, prompt, turn>>
       ELSE /\ turn.handoffs < MaxHandoffs
            /\ IF ~IsAgent(routed_msg.to)
               THEN IF ~IsAgent(last_agent)
                    THEN /\ pc' = "coord done"
                         /\ retval' = Raised
                         /\ UNCHANGED <<last_agent, routed_msg, prompt, turn>>
                    ELSE /\ prompt' = NotFoundPrompt(routed_msg.to)
                         /\ \E m \in AgentReturns : routed_msg' = m
                         /\ turn' = CoordTurn(last_agent, turn.invoked, TRUE,
                                              turn.handoffs + 1, routed_msg.to, FALSE)
                         /\ UNCHANGED <<last_agent, pc, retval>>
               ELSE /\ prompt' = HandOffPrompt(last_agent)
                    /\ last_agent' = NextLastAgent(last_agent, routed_msg.to)
                    /\ \E m \in AgentReturns : routed_msg' = m
                    /\ turn' = CoordTurn(routed_msg.to, turn.invoked, FALSE,
                                         turn.handoffs + 1, routed_msg.to, turn.unknown)
                    /\ UNCHANGED <<pc, retval>>
    /\ UNCHANGED <<tmp_file_name, disk, cfg, self_tools, user_data, addon, convLen, first, rihNext, rih, interrupt,
                   resp, aresp, message, ctx, autoc, hist, steps, runs>>

CoordNext == CoordStart \/ CoordStep

CoordSpec == CoordInit /\ [][CoordNext]_vars

(***************************************************************************)
(* The interrupt checkpoints (_handle_run_interrupt and                    *)
(* _handle_analysis_interrupt) statement by statement, with the thread     *)
(* that sets the flag running beside the loop.                             *)
(***************************************************************************)
MaxSets == 3

\* the signals so far: how many times the flag was set, whether a set was
\* made that no get_interrupt has seen, how many checkpoints asked the human,
\* and the checkpoint the loop is at
SignalTurn(sets, unseen, handled, at) ==
    [sets |-> sets, unseen |-> unseen, handled |-> handled, at |-> at]

InterruptInit ==
    /\ cfg \in { c \in Configs : c.use_analysis }
    /\ pc = "cp loop"
    /\ prompt = <<>>
    /\ addon = <<>>
    /\ convLen = 0
    /\ first = FALSE
    /\ rihNext = FALSE
    /\ rih = FALSE
    /\ interrupt = FALSE
    /\ resp = NoResponse
    /\ aresp = NoResponse
    /\ message = <<>>
    /\ retval = NotReturned
    /\ ctx = "loop"
    /\ autoc = FALSE
    /\ hist = 0
    /\ steps = 0
    /\ runs = 0
    /\ turn = SignalTurn(0, FALSE, 0, "run")
    /\ tmp_file_name = ""
    /\ disk = {}
    /\ last_agent = ""
    /\ routed_msg = NoMsg
    /\ self_tools = TableOf(cfg.tools)
    /\ user_data = NoUserData

\* set_interrupt(True), called by the thread that watches the keyboard
KeyPress ==
    /\ turn.sets < MaxSets
    /\ interrupt' = TRUE
    /\ turn' = [turn EXCEPT !.sets = turn.sets + 1, !.unseen = TRUE]
    /\ UNCHANGED <<tmp_file_name, disk, last_agent, routed_msg, cfg, self_tools, user_data, pc, prompt, addon, convLen,
                   first, rihNext, rih, resp, aresp, message, retval, ctx, autoc, hist,
                   steps, runs>>

\* if not get_interrupt(): return None  /  if get_interrupt(): ...
GetInterrupt ==
    /\ pc = "cp loop"
    /\ \E at \in {"run", "analysis"} :
         IF interrupt
         THEN /\ pc' = "cp read"
              /\ turn' = [turn EXCEPT !.unseen = FALSE, !.at = at]
         ELSE /\ pc' = "cp loop"
              /\ turn' = [turn EXCEPT !.at = at]
    /\ UNCHANGED <<tmp_file_name, disk, last_agent, routed_msg, cfg, self_tools, user_data, prompt, addon, convLen,
                   first, rihNext, rih, interrupt, resp, aresp, message, retval, ctx, autoc,
                   hist, steps, runs>>

\* set_interrupt(False)
ClearInterrupt ==
    /\ pc = "cp read"
    /\ interrupt' = FALSE
    /\ pc' = "cp cleared"
    /\ UNCHANGED <<tmp_file_name, disk, last_agent, routed_msg, cfg, self_tools, user_data, prompt, addon, convLen,
                   first, rihNext, rih, resp, aresp, message, retval, ctx, autoc, hist,
                   steps, runs, turn>>

\* user_input = self.multiline_inputer(...), and the loop up to the next checkpoint
AskIntervention ==
    /\ pc = "cp cleared"
    /\ \E user_input \in {<<>>, <<"intervention text">>} :
         prompt' = IF user_input = <<>> THEN <<>> ELSE Intervention
    /\ turn' = [turn EXCEPT !.handled = turn.handled + 1]
    /\ pc' = "cp loop"
    /\ UNCHANGED <<tmp_file_name, disk, last_agent, routed_msg, cfg, self_tools, user_data, addon, convLen,
                   first, rihNext, rih, interrupt, resp, aresp, message, retval, ctx, autoc,
                   hist, steps, runs>>

InterruptNext == KeyPress \/ GetInterrupt \/ ClearInterrupt \/ AskIntervention

InterruptSpec == InterruptInit /\ [][InterruptNext]_vars

(***************************************************************************)
(* The session of an Agent as its callers use it: set_user_data,           *)
(* get_user_data, set_addon_prompt, the prompt of run, and clear.          *)
(***************************************************************************)
MaxClears == 2

Values == {"v1", "v2"}

\* what the callers did: the last operation, its key and what it returned,
\* the value each key was last set to, and the clears since the last set
SessionTurn(op, key, got, last, clears) ==
    [op |-> op, key |-> key, got |-> got, last |-> last, clears |-> clears]

SessionInit ==
    /\ cfg \in { c \in Configs : c.handlers = <<"TOOL_CALL">> }
    /\ pc = "session"
    /\ prompt = <<>>
    /\ addon = <<>>
    /\ convLen = 0
    /\ first = TRUE
    /\ rihNext = FALSE
    /\ rih = FALSE
    /\ interrupt = FALSE
    /\ resp = NoResponse
    /\ aresp = NoResponse
    /\ message = <<>>
    /\ retval = NotReturned
    /\ ctx = "loop"
    /\ autoc = FALSE
    /\ hist = 0
    /\ steps = 0
    /\ runs = 0
    /\ turn = SessionTurn("none", "", "None", NoUserData, 0)
    /\ tmp_file_name = ""
    /\ disk = {}
    /\ last_agent = ""
    /\ routed_msg = NoMsg
    /\ self_tools = TableOf(cfg.tools)
    /\ user_data = NoUserData

\* the session: [prompt, addon, convLen, user_data]
Session == [prompt |-> prompt, addon |-> addon, convLen |-> convLen, user_data |-> user_data]

\* clear of the session resets prompt, addon prompt and conversation length
SessionManager_clear(s) ==
    [prompt |-> <<>>, addon |-> <<>>, convLen |-> 0, user_data |-> s.user_data]

\* a variant of Agent.clear that builds a new, empty session
Agent_clear_All(s) ==
    [prompt |-> <<>>, addon |-> <<>>, convLen |-> 0, user_data |-> NoUserData]

\* self.session.clear()
Agent_clear(s) == SessionManager_clear(s)

\* self.session.set_user_data(key, value)
set_user_data ==
    /\ \E k \in Keys, v \in Values :
         /\ user_data' = [user_data EXCEPT ![k] = v]
         /\ turn' = SessionTurn("set", k, "None", [turn.last EXCEPT ![k] = v], 0)
    /\ UNCHANGED <<tmp_file_name, disk, last_agent, routed_msg, cfg, self_tools, pc, prompt,
                   addon, convLen, first, rihNext, rih, interrupt, resp, aresp, message,
                   retval, ctx, autoc, hist, steps, runs>>

\* return self.session.get_user_data(key)
get_user_data ==
    /\ \E k \in Keys : turn' = [turn EXCEPT !.op = "get", !.key = k, !.got = user_data[k]]
    /\ UNCHANGED <<tmp_file_name, disk, last_agent, routed_msg, cfg, self_tools, user_data, pc,
                   prompt, addon, convLen, first, rihNext, rih, interrupt, resp, aresp,
                   message, retval, ctx, autoc, hist, steps, runs>>

\* the session at work: run stores the input, a tool sets an addon prompt,
\* an exchange with the model adds to the length
SessionUse ==
    /\ \/ prompt' = <<"user input">> /\ UNCHANGED <<addon, convLen>>
       \/ addon' = CallerAddon /\ UNCHANGED <<prompt, convLen>>
       \/ convLen' = MaxTokenCount /\ prompt' = <<>> /\ UNCHANGED addon
    /\ turn' = [turn EXCEPT !.op = "use", !.key = "", !.got = "None"]
    /\ UNCHANGED <<tmp_file_name, disk, last_agent, routed_msg, cfg, self_tools, user_data, pc,
                   first, rihNext, rih, interrupt, resp, aresp, message, retval, ctx, autoc,
                   hist, steps, runs>>

\* a call of Agent.clear
clear ==
    /\ turn.clears < MaxClears
    /\ LET s == Agent_clear(Session)
       IN /\ prompt' = s.prompt
          /\ addon' = s.addon
          /\ convLen' = s.convLen
          /\ user_data' = s.user_data
    /\ turn' = [turn EXCEPT !.op = "clear", !.key = "", !.got = "None",
                            !.clears = turn.clears + 1]
    /\ UNCHANGED <<tmp_file_name, disk, last_agent, routed_msg, cfg, self_tools, pc, first,
                   rihNext, rih, interrupt, resp, aresp, message, retval, ctx, autoc, hist,
                   steps, runs>>

SessionNext == set_user_data \/ get_user_data \/ SessionUse \/ clear

SessionSpec == SessionInit /\ [][SessionNext]_vars

(***************************************************************************)
(* The tool table of a ToolRegistry: register_tool, get_tool, use_tools    *)
(* and dont_use_tools, called in any order.                                *)
(***************************************************************************)
ToolNames == {"echo", "save_memory", "extra"}

\* the tools a name can be registered with
ToolObjects == {"builtin", "external"}

\* the name lists given to use_tools and dont_use_tools
NameLists ==
    {<<>>} \cup {<<a>> : a \in ToolNames} \cup {<<a, b>> : a \in ToolNames, b \in ToolNames}

\* name in self.tools
Has(table, name) == \E i \in 1..Len(table) : table[i].name = name

\* self.tools[name] = tool: the entry of the name is replaced where it
\* stands, a new name is added at the end
dict_set(table, name, tool) ==
    IF Has(table, name)
    THEN [i \in 1..Len(table) |-> IF table[i].name = name THEN Entry(name, tool) ELSE table[i]]
    ELSE Append(table, Entry(name, tool))

\* self.tools.get(name)
dict_get(table, name) ==
    IF Has(table, name)
    THEN table[CHOOSE i \in 1..Len(table) : table[i].name = name].tool
    ELSE "None"

\* a variant of register_tool that keeps the entry a name already has
register_tool_KeepsFirst(table, name, tool) ==
    IF Has(table, name) THEN table ELSE Append(table, Entry(name, tool))

\* self.tools[name] = Tool(name, description, parameters, func)
register_tool(table, name, tool) == dict_set(table, name, tool)

\* return self.tools.get(name)
get_tool(table, name) == dict_get(table, name)

\* {tool_name: self.tools[tool_name] for tool_name in name}, built name by name
RECURSIVE Comprehension(_, _, _)
Comprehension(table, names, acc) ==
    IF names = <<>> THEN acc
    ELSE Comprehension(table, Tail(names),
                       dict_set(acc, Head(names), dict_get(table, Head(names))))

\* use_tools: the lookup self.tools[tool_name] of a name that is not in the
\* table raises KeyError before self.tools is assigned
use_tools(table, names) ==
    IF \E i \in 1..Len(names) : ~Has(table, names[i])
    THEN [raised |-> TRUE, tools |-> table]
    ELSE [raised |-> FALSE, tools |-> Comprehension(table, names, <<>>)]

\* {name: tool for name, tool in self.tools.items() if name not in names}
dont_use_tools(table, names) ==
    [raised |-> FALSE,
     tools  |-> SelectSeq(table, LAMBDA e : \A i \in 1..Len(names) : names[i] # e.name)]

\* what the callers did: the operation, its argument, what it returned or
\* whether it raised, the table before it, and for each name the tool of its
\* latest registration while only registrations were made
RegistryTurn(op, arg, got, raised, before, latest, onlyReg) ==
    [op |-> op, arg |-> arg, got |-> got, raised |-> raised, before |-> before,
     latest |-> latest, onlyReg |-> onlyReg]

RegistryInit ==
    /\ cfg \in { c \in Configs : c.handlers = <<"TOOL_CALL">> }
    /\ pc = "registry"
    /\ prompt = <<>>
    /\ addon = <<>>
    /\ convLen = 0
    /\ first = TRUE
    /\ rihNext = FALSE
    /\ rih = FALSE
    /\ interrupt = FALSE
    /\ resp = NoResponse
    /\ aresp = NoResponse
    /\ message = <<>>
    /\ retval = NotReturned
    /\ ctx = "loop"
    /\ autoc = FALSE
    /\ hist = 0
    /\ steps = 0
    /\ runs = 0
    /\ tmp_file_name = ""
    /\ disk = {}
    /\ last_agent = ""
    /\ routed_msg = NoMsg
    /\ self_tools = <<>>
    /\ user_data = NoUserData
    /\ turn = RegistryTurn("none", <<>>, "None", FALSE, <<>>,
                           [n \in ToolNames |-> "None"], TRUE)

\* a call of register_tool, by the loading of the tool files or by a caller
RegisterTool ==
    /\ \E name \in ToolNames, tool \in ToolObjects :
         /\ self_tools' = register_tool(self_tools, name, tool)
         /\ turn' = RegistryTurn("register_tool", <<name>>, "None", FALSE, self_tools,
                                 [turn.latest EXCEPT ![name] = tool], turn.onlyReg)
    /\ UNCHANGED <<tmp_file_name, disk, last_agent, routed_msg, cfg, user_data, pc, prompt,
                   addon, convLen, first, rihNext, rih, interrupt, resp, aresp, message,
                   retval, ctx, autoc, hist, steps, runs>>

\* a call of get_tool
GetTool ==
    /\ \E name \in ToolNames :
         turn' = [turn EXCEPT !.op = "get_tool", !.arg = <<name>>,
                              !.got = get_tool(self_tools, name), !.raised = FALSE,
                              !.before = self_tools]
    /\ UNCHANGED <<tmp_file_name, disk, last_agent, routed_msg, cfg, self_tools, user_data, pc,
                   prompt, addon, convLen, first, rihNext, rih, interrupt, resp, aresp,
                   message, retval, ctx, autoc, hist, steps, runs>>

\* a call of use_tools
UseTools ==
    /\ \E names \in NameLists :
         LET r == use_tools(self_tools, names)
         IN /\ self_tools' = r.tools
            /\ turn' = [turn EXCEPT !.op = "use_tools", !.arg = names, !.got = "None",
                                    !.raised = r.raised, !.before = self_tools,
                                    !.onlyReg = FALSE]
    /\ UNCHANGED <<tmp_file_name, disk, last_agent, routed_msg, cfg, user_data, pc, prompt,
                   addon, convLen, first, rihNext, rih, interrupt, resp, aresp, message,
                   retval, ctx, autoc, hist, steps, runs>>

\* a call of dont_use_tools
DontUseTools ==
    /\ \E names \in NameLists :
         LET r == dont_use_tools(self_tools, names)
         IN /\ self_tools' = r.tools
            /\ turn' = [turn EXCEPT !.op = "dont_use_tools", !.arg = names, !.got = "None",
                                    !.raised = r.raised, !.before = self_tools,
                                    !.onlyReg = FALSE]
    /\ UNCHANGED <<tmp_file_name, disk, last_agent, routed_msg, cfg, user_data, pc, prompt,
                   addon, convLen, first, rihNext, rih, interrupt, resp, aresp, message,
                   retval, ctx, autoc, hist, steps, runs>>

RegistryNext == RegisterTool \/ GetTool \/ UseTools \/ DontUseTools

RegistrySpec == RegistryInit /\ [][RegistryNext]_vars

(***************************************************************************)
(* apply_patch (jarvis_code_agent/patch.py): the files of a response one   *)
(* after the other, then the commit step.  In this specification disk maps *)
(* each path to the content of its file: "none" when there is no file,     *)
(* "head" for the committed content, "local" for content that is not       *)
(* committed, "patched" for the content a patch wrote.  The git commands   *)
(* are taken to do what they are called for.                               *)
(***************************************************************************)
PatchFiles == {"a.py", "b.py"}

Contents == {"none", "head", "local"}

\* the responses apply_patch is given
PatchInputs ==
    { PatchResponse(<<PatchBlock("a.py", "patch")>>),
      PatchResponse(<<PatchBlock("a.py", "patch"), PatchBlock("b.py", "patch")>>),
      PatchResponse(<<PatchBlock("a.py", "patch"), PatchBlock("a.py", "patch"),
                      PatchBlock("b.py", "patch")>>),
      PatchResponse(<<PatchBlock("a.py", "nofile"), PatchBlock("b.py", "patch")>>) }

\* the keys of the dict _parse_patch returns, in insertion order
RECURSIVE PatchedFiles(_, _)
PatchedFiles(blocks, acc) ==
    IF blocks = <<>> THEN acc
    ELSE PatchedFiles(Tail(blocks),
                      IF Head(blocks).file \in Atoms(acc) THEN acc
                      ELSE Append(acc, Head(blocks).file))

\* len(patch_list) of a file
PatchCount(blocks, filepath) == Len(SelectSeq(blocks, LAMBDA b : b.file = filepath))

\* handle_code_operation: a path without a file gets the patch as its
\* content; for a path with a file the merge prompt is built with
\* patch_item["content"] over the keys of the patch dict, which raises, and
\* the except clause returns the error text: the file is not written
handle_code_operation(filepath, d, io) ==
    IF d[filepath] = "none"
    THEN IF io = "ok" THEN [err |-> FALSE, disk |-> [d EXCEPT ![filepath] = "patched"]]
         ELSE [err |-> TRUE, disk |-> d]
    ELSE [err |-> TRUE, disk |-> d]

\* the patches of one file in order, up to the first that returns an error
RECURSIVE apply_patches(_, _, _, _)
apply_patches(filepath, n, d, io) ==
    IF n = 0 THEN [err |-> FALSE, disk |-> d]
    ELSE LET r == handle_code_operation(filepath, d, io)
         IN IF r.err THEN r ELSE apply_patches(filepath, n - 1, r.disk, io)

\* git diff --name-only and git diff --staged --name-only list the path
is_file_modified(filepath, d, tracked) == filepath \in tracked /\ d[filepath] # "head"

\* a variant of revert_file that leaves the file as the patches left it
revert_file_Keeps(filepath, d, tracked) == d

\* git checkout HEAD of a tracked path; os.remove of any other
revert_file(filepath, d, tracked) ==
    [d EXCEPT ![filepath] = IF filepath \in tracked THEN "head" ELSE "none"]

\* git reset --hard HEAD and git clean -fd
revert_change(d, tracked) == [f \in DOMAIN d |-> IF f \in tracked THEN "head" ELSE "none"]

\* the body of the loop of apply_patch for one file
apply_file(filepath, n, d, tracked, io) ==
    LET r == apply_patches(filepath, n, d, io)
    IN IF r.err
       THEN [status |-> "failed", err |-> TRUE,
             disk |-> revert_file(filepath, r.disk, tracked)]
       ELSE IF ~is_file_modified(filepath, r.disk, tracked)
       THEN [status |-> "unmodified", err |-> FALSE, disk |-> r.disk]
       ELSE [status |-> "success", err |-> FALSE, disk |-> r.disk]

\* the locals of apply_patch: the files still to handle, success_files and
\* failed_files; with them the tracked paths, the files as they were at the
\* call, the files on which no patch failed, and how the commit step ended
PatchTurn(todo, success_files, failed_files, tracked, before, applied, commit) ==
    [todo |-> todo, success_files |-> success_files, failed_files |-> failed_files,
     tracked |-> tracked, before |-> before, applied |-> applied, commit |-> commit]

PatchInit ==
    /\ cfg \in { c \in Configs : c.handlers = <<"TOOL_CALL">> }
    /\ pc = "patch loop"
    /\ resp \in PatchInputs
    /\ disk \in [PatchFiles -> Contents]
    /\ \E tracked \in SUBSET PatchFiles :
         /\ \A f \in PatchFiles : disk[f] = "head" => f \in tracked
         /\ turn = PatchTurn(PatchedFiles(_parse_patch(resp), <<>>), <<>>, <<>>, tracked,
                             disk, <<>>, "none")
    /\ prompt = <<>>
    /\ addon = <<>>
    /\ convLen = 0
    /\ first = TRUE
    /\ rihNext = FALSE
    /\ rih = FALSE
    /\ interrupt = FALSE
    /\ aresp = NoResponse
    /\ message = <<>>
    /\ retval = NotReturned
    /\ ctx = "loop"
    /\ autoc = FALSE
    /\ hist = 0
    /\ steps = 0
    /\ runs = 0
    /\ tmp_file_name = ""
    /\ last_agent = ""
    /\ routed_msg = NoMsg
    /\ self_tools = TableOf(cfg.tools)
    /\ user_data = NoUserData

\* one iteration of "for filepath, patch_list in patches.items()"
PatchFile ==
    /\ pc = "patch loop"
    /\ turn.todo # <<>>
    /\ \E io \in {"ok", "fail"} :
         LET filepath == Head(turn.todo)
             r == apply_file(filepath, PatchCount(_parse_patch(resp), filepath), disk,
                             turn.tracked, io)
         IN /\ disk' = r.disk
            /\ turn' = [turn EXCEPT
                  !.todo = Tail(turn.todo),
                  !.success_files = IF r.status = "success" THEN Append(@, filepath) ELSE @,
                  !.failed_files = IF r.status = "failed" THEN Append(@, filepath) ELSE @,
                  !.applied = IF r.err THEN @ ELSE Append(@, filepath)]
    /\ UNCHANGED <<tmp_file_name, last_agent, routed_msg, cfg, self_tools, user_data, pc,
                   prompt, addon, convLen, first, rihNext, rih, interrupt, resp, aresp,
                   message, retval, ctx, autoc, hist, steps, runs>>

\* the text apply_patch builds after the loop
final_ret(success_files, failed_files, commit) ==
    (IF success_files = <<>> THEN <<>>
     ELSE IF commit = "committed" THEN <<"committed:">> \o success_files
     ELSE <<"the commit was cancelled">>)
    \o (IF failed_files = <<>> THEN <<>> ELSE <<"failed:">> \o failed_files)
    \o (IF success_files = <<>> /\ failed_files = <<>>
        THEN <<"no patch modified a file">> ELSE <<>>)

\* the commit step and the reply: with no staged diff, a declined commit or a
\* failed commit every change is reverted
PatchCommit ==
    /\ pc = "patch loop"
    /\ turn.todo = <<>>
    /\ \E commit \in (IF turn.success_files = <<>> THEN {"none"}
                      ELSE {"committed", "cancelled"}),
          custom \in BOOLEAN :
         /\ disk' = IF commit = "cancelled" THEN revert_change(disk, turn.tracked) ELSE disk
         /\ turn' = [turn EXCEPT !.commit = commit]
         /\ retval' = Returned(IF custom THEN <<"custom reply">>
                               ELSE final_ret(turn.success_files, turn.failed_files, commit))
    /\ pc' = "patch done"
    /\ UNCHANGED <<tmp_file_name, last_agent, routed_msg, cfg, self_tools, user_data,
                   prompt, addon, convLen, first, rihNext, rih, interrupt, resp, aresp,
                   message, ctx, autoc, hist, steps, runs>>

PatchNext ==
    \/ PatchFile
    \/ PatchCommit

PatchSpec == PatchInit /\ [][PatchNext]_vars

(***************************************************************************)
(* Properties.                                                             *)
(***************************************************************************)
\* the blocks of a response that are a mapping with name and arguments
WellFormed(response) == SelectSeq(response.tc, LAMBDA b : b.kind = "map")

HandledByRegistry == turn.where \notin {"none", "can_handle"} /\ turn.h = <<"TOOL_CALL">>

\* the text handle_tool_calls gives for what the tool did
TextOf(name, tres, result) ==
    IF tres.status # "returned" THEN result = Failure(tres.status)
    ELSE \/ result = Report(tres)
         \/ /\ tres.success
            /\ get_context_token_count(Report(tres)) > RegistryBudget
            /\ \E ok \in BOOLEAN : result = Summarized(name, Report(tres), ok)

\* C1 as stated: a response with exactly one well-formed tool-call block has
\* exactly that tool executed once, no other, and (false, its report) returned
C1_AsStated ==
    HandledByRegistry /\ Len(WellFormed(turn.rresp)) = 1
    => LET call == WellFormed(turn.rresp)[1]
       IN /\ turn.exec = <<call.name>>
          /\ ~turn.term
          /\ ~turn.fault
          /\ turn.tres.status = "returned"
          /\ turn.result = Report(turn.tres)

\* C1 amended: when the one well-formed block is all that extraction yields,
\* names a registered tool and carries arguments that are a mapping or parse
\* as one, exactly that tool is executed once, no other, and handle returns
\* (false, the text reporting what the tool did)
C1_OneCallExecutesOnce ==
    /\ HandledByRegistry
    /\ Len(WellFormed(turn.rresp)) = 1
    /\ Len(_extract_tool_calls(turn.rresp)) = 1
    /\ InTable(WellFormed(turn.rresp)[1].name, cfg.tools)
    /\ WellFormed(turn.rresp)[1].args # "raw"
    => LET call == WellFormed(turn.rresp)[1]
       IN /\ turn.exec = <<call.name>>
          /\ ~turn.term
          /\ ~turn.fault
          /\ turn.tres.status # "none"
          /\ TextOf(call.name, turn.tres, turn.result)

C1_Witness ==
    /\ HandledByRegistry
    /\ turn.rresp.tc = <<Call("echo", "json"), NoFields>>
    /\ turn.exec = <<"echo">>
    /\ turn.result = <<"stdout:", "out of", "echo">>

\* the names of the calls a response attempts
RECURSIVE Names(_)
Names(calls) == IF calls = <<>> THEN <<>> ELSE <<Head(calls).name>> \o Names(Tail(calls))

\* C2: a response with two or more well-formed tool-call blocks has no tool
\* executed, and the text returned names every attempted tool and asks for a
\* single action
C2_MultipleCallsRefusedAndNamed ==
    HandledByRegistry /\ Len(WellFormed(turn.rresp)) >= 2 /\ ~turn.fault
    => /\ turn.exec = <<>>
       /\ Contains(turn.result, <<"ONLY handle one tool call at a time">>)
       /\ Contains(turn.result, Names(WellFormed(turn.rresp)))

\* the handler the routing of a response must pick: the first, in the order
\* of registration, whose can_handle is true
FirstMatch(handlers, response) ==
    LET idx == {i \in 1..Len(handlers) : can_handle(handlers[i], response)}
    IN IF idx = {} THEN <<>>
       ELSE <<handlers[CHOOSE i \in idx : \A j \in idx : i <= j]>>

Failed == pc = "done" /\ retval = Returned(TaskFailed)

C5_TerminateReturnsResult ==
    turn.where = "main" /\ turn.term /\ ~turn.fault
    => /\ pc = "done"
       /\ retval = Returned(turn.result)
       /\ turn.cb = 0

C5_Witness ==
    /\ turn.where = "main"
    /\ turn.term
    /\ turn.h = <<"SEND_MESSAGE">>
    /\ pc = "done"
    /\ retval = Returned(<<"to", "B", "content">>)
    /\ cfg.cb

\* C6: after an interrupt with an empty human input the run goes to
\* completion and the handler action of that response is never executed,
\* whatever the completion step returns
C6_EmptyInterventionSkipsAction ==
    turn.ict = "empty" => ~(turn.where = "main" /\ turn.h # <<>>)

C8_FaultsBecomeTaskFailed ==
    /\ retval.how \in {"none", "return"}
    /\ turn.raised # "none" => Failed

C8_Witness ==
    /\ turn.raised = "complete"
    /\ turn.ct = 1
    /\ Failed

\* C9: after a compaction conversation_length is the token count of the
\* text that is kept, the seed of the new conversation and the outgoing
\* message, and not the total from before the compaction
C9_LengthAfterCompaction ==
    pc = "invoke" /\ turn.compacted
    => convLen = get_context_token_count(message)

C9_Witness ==
    /\ pc = "invoke"
    /\ turn.compacted
    /\ Head(message) = "summary of the conversation so far"
    /\ Len(message) > 1
    /\ convLen = get_context_token_count(message)
    /\ hist = 0

\* C10: conversation_length equals the tokens sent to and received from the
\* model since the last compaction, the exchanges of the completion step
\* (analysis loop, memory save, final summary) included
C10_LengthCountsEveryExchange ==
    convLen = hist + (IF pc = "invoke" THEN get_context_token_count(message) ELSE 0)

\* C11: once _handle_history_with_file_upload has finished, the transient
\* history file does not exist, whether the upload succeeded, returned false,
\* or a statement of the function raised
C11_TmpFileRemoved ==
    pc = "upload exit" => tmp_file_name \notin disk /\ disk = {}

C11_Witness ==
    /\ pc = "upload exit"
    /\ tmp_file_name # ""
    /\ turn.raised = "upload_files"
    /\ retval = Raised
    /\ disk = {}

\* handle ran a tool and the report of what it returned is over the budget
OversizedReport ==
    /\ HandledByRegistry
    /\ turn.tres.status = "returned"
    /\ get_context_token_count(Report(turn.tres)) > RegistryBudget

\* C12: whenever the report of a tool exceeds the token budget of the
\* dispatcher, for a successful and for a failed result alike, the text
\* returned is the summary the model gave or, when the summarization failed,
\* the output-too-long notice with a bounded preview, never the full report
C12_OversizedIsSummarized ==
    OversizedReport
    => /\ turn.result # Report(turn.tres)
       /\ ~Contains(turn.result, <<"BIG">>)
       /\ \E ok \in BOOLEAN :
            turn.result = Summarized(turn.exec[1], Report(turn.tres), ok)

HandledByMultiAgent == turn.where = "handle" /\ turn.h = <<"SEND_MESSAGE">>

\* the blocks of a response that are a mapping with to and content
WellFormedMsgs(response) == SelectSeq(response.sm, LAMBDA b : b.kind = "map")

OneUsableCall ==
    /\ turn.where = "handle"
    /\ turn.h = <<"TOOL_CALL">>
    /\ Len(_extract_tool_calls(turn.rresp)) = 1
    /\ _extract_tool_calls(turn.rresp)[1].kind = "map"
    /\ _extract_tool_calls(turn.rresp)[1].args # "raw"

C16_RawArgumentsReported ==
    /\ turn.where = "handle"
    /\ turn.h = <<"TOOL_CALL">>
    /\ Len(_extract_tool_calls(turn.rresp)) = 1
    /\ _extract_tool_calls(turn.rresp)[1].kind = "map"
    /\ _extract_tool_calls(turn.rresp)[1].args = "raw"
    => /\ turn.exec = <<>>
       /\ ~turn.fault
       /\ turn.result # <<>>

\* C17: when the execute procedure of the tool raises, or returns a result
\* lacking the expected fields, handle_tool_calls propagates nothing: it
\* returns a failure text carrying the error message, and the run of the
\* agent continues with that text as the result of the handler
C17_ToolFaultBecomesText ==
    turn.where = "main" /\ turn.tres.status \in {"raise", "malformed"}
    => /\ ~turn.fault
       /\ ~turn.term
       /\ Contains(turn.result, FailureText)
       /\ Contains(turn.result, <<ErrorOf(turn.tres.status)>>)
       /\ turn.raised \in {"none", "callback"}
       /\ retval # Raised
       /\ pc \in {"after", "loop", "done"}
       /\ pc = "done" => turn.raised = "callback"
       /\ pc \in {"after", "loop"} => prompt = turn.result /\ retval = NotReturned

C17_Witness ==
    /\ turn.where = "main"
    /\ turn.tres.status = "malformed"
    /\ turn.exec = <<"echo">>
    /\ pc = "loop"
    /\ prompt = <<"tool call failed", "KeyError">>

\* a block whose body does not load, or loads as a mapping without the fields
Malformed(b) == b.kind \in {"badyaml", "nofields"}

\* the handler was given a response holding a malformed block of its kind
GivenMalformed ==
    /\ turn.where = "handle"
    /\ \/ turn.h = <<"TOOL_CALL">> /\ \E i \in 1..Len(turn.rresp.tc) : Malformed(turn.rresp.tc[i])
       \/ turn.h = <<"SEND_MESSAGE">>
          /\ \E i \in 1..Len(turn.rresp.sm) : Malformed(turn.rresp.sm[i])

\* C18: a response with a malformed action block never makes extraction,
\* can_handle or handle raise, and it is answered with a corrective text for
\* the model instead of being dropped
C18_MalformedBlockAnswered ==
    GivenMalformed => ~turn.fault /\ turn.result # <<>>

\* the number of addons, caller-set or default, in a message
AddonCount(m) ==
    Cardinality({ i \in 1..Len(m) : m[i] \in {CallerAddon[1], "default addon: one action of"} })

\* C19: a prompt the main loop sends to the model is the pending session
\* prompt plus exactly one addon: the caller-set addon when one is pending,
\* which leaves session.addon_prompt empty, and otherwise the default addon,
\* which lists the names of all the registered handlers
C19_OneAddonPerPrompt ==
    [][ pc = "call" /\ pc' = "invoke"
        => /\ Contains(message', prompt)
           /\ AddonCount(message') = 1
           /\ addon' = <<>>
           /\ IF addon # <<>>
              THEN Contains(message', addon)
              ELSE /\ Contains(message', make_default_addon_prompt(cfg.handlers))
                   /\ Contains(message', cfg.handlers) ]_vars

C19_Witness ==
    /\ pc = "invoke"
    /\ Contains(message, CallerAddon)
    /\ Contains(message, <<"stdout:", "out of", "echo">>)
    /\ AddonCount(message) = 1
    /\ addon = <<>>

\* the main loop had a handler act on the response, without terminating
ActedInMainLoop ==
    turn.where = "main" /\ turn.h # <<>> /\ ~turn.term /\ ~turn.fault

\* C20: a callback that is set is invoked once after every handler action
\* that executed with terminate false, before the next model call, and only
\* in turns in which a handler action was executed; when it raises, the run
\* ends with the Task failed result
C20_CallbackAfterHandlerAction ==
    /\ turn.cb <= 1
    /\ turn.cb = 1 => cfg.cb /\ ActedInMainLoop
    /\ cfg.cb /\ ActedInMainLoop /\ pc \in {"loop", "ask", "ct_start"} => turn.cb = 1
    /\ turn.raised = "callback" => Failed

\* C21: in the completion step the satisfaction check, the self-analysis
\* pass, the memory-save prompt and the final summary request are each best
\* effort: a failure of one of them is logged and the run still finishes as
\* completed, never with the Task failed result
C21_CompletionIsBestEffort ==
    turn.ct > 0 /\ turn.raised = "complete"
    => pc = "done" /\ retval.how = "return" /\ retval.val # TaskFailed

\* C22: the interrupt flag is read and cleared atomically at a checkpoint:
\* whenever another thread sets the flag, no set is lost (a set that no
\* checkpoint has seen leaves the flag raised for the next checkpoint) and no
\* set is handled at two checkpoints
C22_InterruptReadClearAtomic ==
    /\ turn.unseen => interrupt
    /\ turn.handled <= turn.sets
    /\ pc = "cp cleared" => turn.handled < turn.sets

\* the tool table, the files, the session and the routed message are as the
\* construction left them
Untouched ==
    /\ self_tools = TableOf(cfg.tools)
    /\ disk = {}
    /\ prompt = <<>>
    /\ addon = <<>>
    /\ convLen = 0
    /\ user_data = NoUserData
    /\ routed_msg = NoMsg
    /\ last_agent = ""

\* C23: can_handle of ToolRegistry, MultiAgent and PatchOutputHandler is a
\* pure test: after any number of calls on any responses the tool table, the
\* agents' message routing and the session are unchanged and no tool, message
\* or patch was executed; it only answers whether the response holds an
\* action of the handler
C23_CanHandleIsPure ==
    /\ Untouched
    /\ turn.where = "can_handle"
       => /\ turn.exec = <<>>
          /\ ~turn.term
          /\ turn.result = <<>>
          /\ turn.can <=> can_handle(turn.h[1], turn.rresp)

C23_Witness ==
    /\ pc = "handler returned"
    /\ turn.where = "can_handle"
    /\ turn.h = <<"PATCH">>
    /\ turn.can
    /\ Len(turn.rresp.pt) = 2
    /\ Untouched

OneEntryPerName(table) ==
    \A i \in 1..Len(table), j \in 1..Len(table) : table[i].name = table[j].name => i = j

\* C25: after any sequence of register_tool calls the tool table holds
\* exactly one entry per distinct name registered, and get_tool(name) returns
\* the tool of the latest registration under that name: a later registration
\* overwrites an earlier one
C25_LatestRegistrationWins ==
    /\ OneEntryPerName(self_tools)
    /\ turn.onlyReg
       => /\ \A n \in ToolNames : get_tool(self_tools, n) = turn.latest[n]
          /\ Len(self_tools) = Cardinality({n \in ToolNames : turn.latest[n] # "None"})
          /\ turn.op = "get_tool" => turn.got = turn.latest[turn.arg[1]]

C25_Witness ==
    /\ turn.onlyReg
    /\ turn.op = "register_tool"
    /\ turn.arg = <<"echo">>
    /\ get_tool(turn.before, "echo") = "builtin"
    /\ get_tool(self_tools, "echo") = "external"
    /\ Len(turn.before) = 2
    /\ Len(self_tools) = 2

\* the entries of a table
Entries(table) == {table[i] : i \in 1..Len(table)}

\* the table after the operation holds exactly the entries the table before
\* it had under the names a predicate keeps
Restricted(keep(_)) ==
    /\ Entries(self_tools) = {e \in Entries(turn.before) : keep(e.name)}
    /\ OneEntryPerName(self_tools)

\* C26: after use_tools(N) the table holds exactly the previously registered
\* tools whose names are in N, after dont_use_tools(N) exactly those whose
\* names are not in N; neither adds a tool nor changes the tool of a name
\* that remains
C26_UseAndDontUseRestrict ==
    /\ turn.op = "use_tools" => Restricted(LAMBDA n : n \in Atoms(turn.arg))
    /\ turn.op = "dont_use_tools" => Restricted(LAMBDA n : n \notin Atoms(turn.arg))

\* the part of C26 the table operations do satisfy: use_tools restricts the
\* table when every name of the list is registered, and dont_use_tools always
RestrictsWhenRegistered ==
    /\ turn.op = "use_tools" /\ Atoms(turn.arg) \subseteq {e.name : e \in Entries(turn.before)}
       => ~turn.raised /\ Restricted(LAMBDA n : n \in Atoms(turn.arg))
    /\ turn.op = "dont_use_tools"
       => ~turn.raised /\ Restricted(LAMBDA n : n \notin Atoms(turn.arg))

\* C27: before every send of the main loop the tokens of the outgoing
\* message are added to the conversation length, and when the total exceeds
\* the maximum a compaction runs before that send: no message is about to be
\* sent in a turn whose total exceeded the maximum without a compaction
C27_CompactionBeforeSend ==
    pc = "invoke"
    => /\ turn.total > MaxTokenCount => turn.compacted /\ hist = 0
       /\ turn.total <= MaxTokenCount
          => /\ ~turn.compacted
             /\ convLen = turn.total
             /\ turn.total >= get_context_token_count(message)

C27_Witness ==
    /\ pc = "invoke"
    /\ turn.compacted
    /\ turn.total > MaxTokenCount
    /\ cfg.upload
    /\ Head(message) = "the uploaded file is the history"
    /\ hist = 0

\* the main loop routed a response of the model, no handler matched it and
\* no interrupt was handled in the turn
NoMatch ==
    turn.where = "main" /\ turn.h = <<>> /\ turn.sent /\ turn.ict = "none"

\* the instruction typed by the human is the next thing sent to the model
InstructionIsSent(orEarly) ==
    turn.pendKind = "instruction"
    => /\ turn.pend = NextInstruction
       /\ pc \in {"loop", "call", "invoke", "check", "done"}
       /\ pc \in {"loop", "call"} => prompt = NextInstruction
       /\ pc = "invoke" => Contains(message, NextInstruction)
       /\ pc = "check" => \/ turn.sent /\ Contains(message, NextInstruction)
                          \/ /\ orEarly
                             /\ turn.early /\ ~turn.sent /\ resp = AsResponse(NextInstruction)
       /\ pc = "done" => Failed

C30_SetupOnlyOnFirstTurnOfFirstRun ==
    /\ turn.setupRun <= 1
    /\ turn.setupTurn <= 1
    /\ ~turn.setupRestored

\* what holds of the setup: it runs to its end at most once in the agent's
\* life, on the first turn of a run, never after a successful restore, and
\* in a later run only when every earlier run ended in a fault of the setup
SetupOnceUnlessItFailed ==
    /\ turn.setupTurn <= 1
    /\ ~turn.setupRestored
    /\ (turn.setupRun = 0) = (first \/ (turn.restored /\ turn.setupTurn = 0))
    /\ turn.setupRun > 1 => turn.setupTurn = 1
    /\ (pc \notin {"idle", "done", "loop"}) => ~first
    /\ turn.restored => ~first

\* a setup performed in the second call of run, after the first call failed in it
SetupInSecondRun ==
    /\ turn.setupRun = 2
    /\ turn.setupTurn = 1
    /\ runs = 2
    /\ pc = "call"

\* a second run after a successful restore, in which no setup was performed
RestoredRunSkipsSetup ==
    /\ turn.restored
    /\ turn.setupRun = 0
    /\ runs = 2
    /\ pc = "call"

C33_DeclinedInAnalysisNotExecuted ==
    turn.aict = "declined" => turn.h = <<>> /\ turn.exec = <<>>

\* the declined call of the analysis pass, executed, its output fed back
DeclinedInAnalysisExecuted ==
    /\ turn.aict = "declined"
    /\ turn.where = "analysis"
    /\ turn.exec = <<"echo">>
    /\ pc = "an_chat"
    /\ prompt = turn.result
    /\ ~Contains(prompt, <<"intervention text">>)

\* C32: a non-empty intervention text given at an interrupt of the main loop
\* is part of the next prompt for the model: when the text is routed back
\* without executing the action, and also when the human approves the
\* pending action and the handler has executed it
C32_InterventionTextIsSent ==
    /\ (pc = "loop" /\ turn.ict \in {"declined", "plain"})
       => Contains(prompt, <<"intervention text">>)
    /\ (pc = "after" /\ turn.ict = "approved" /\ turn.where = "main")
       => Contains(prompt, <<"intervention text">>)

\* the approved action executed and its output, without the intervention
\* text, left as the prompt of the next turn
ApprovedTextDropped ==
    /\ pc = "after"
    /\ turn.ict = "approved"
    /\ turn.exec = <<"echo">>
    /\ prompt = turn.result
    /\ prompt = turn.pend
    /\ prompt # <<>>
    /\ ~Contains(prompt, <<"intervention text">>)

\* the part that holds: the text is the next prompt whenever the action is
\* not executed
UnexecutedInterventionIsSent ==
    (pc = "loop" /\ turn.ict \in {"declined", "plain"})
    => /\ Contains(prompt, <<"intervention text">>)
       /\ turn.pend = prompt
       /\ rih

\* the prompt of the coming turn was typed by the human: the input of run,
\* the next instruction, or an intervention text routed back unexecuted
FromHuman ==
    \/ turn.turnNo = 0
    \/ turn.pendKind \in {"instruction", "declined", "plain"}

\* C34: input handlers are applied to a prompt only when it comes from the
\* human or when run_input_handlers_next_turn was set; they are never
\* applied to a prompt that is a handler's result; the flag is consumed by
\* exactly one turn
C34_InputHandlersOnlyOnHumanInput ==
    /\ [](pc = "loop" /\ rih => FromHuman)
    /\ [](pc = "loop" /\ turn.pendKind = "result" => ~rih /\ prompt = turn.pend)
    /\ [][ /\ (pc = "loop" /\ pc' = "call")
              => /\ rih' = (rih \/ rihNext)
                 /\ ~rihNext'
           /\ (pc = "call" /\ ~rih)
              => /\ ~turn'.early
                 /\ turn'.raised # "input_handler"
                 /\ (pc' = "invoke" => ~Contains(message', <<"handler text">>))
           /\ (pc = "call" /\ pc' \in {"check", "invoke"}) => rihNext' = rihNext
           /\ (pc \in {"invoke", "call"} /\ pc' = "check") => ~rih'
         ]_vars

\* the input handlers run on a handler's result, the flag having been set
C34_Witness ==
    /\ pc = "invoke"
    /\ turn.pendKind = "result"
    /\ ~rihNext
    /\ rih
    /\ Contains(message, <<"handler text">>)
    /\ Contains(message, <<"out of", "echo">>)

C36_CompactionClearsAndSends ==
    turn.compacted
    => /\ turn.raised # "compaction"
       /\ pc = "invoke" => /\ hist = 0
                           /\ convLen = get_context_token_count(message)

\* a compaction after which nothing is sent: the upload path raised and the
\* run returned the failure text
CompactionAbortsRun ==
    /\ turn.compacted
    /\ turn.raised = "compaction"
    /\ cfg.upload
    /\ pc = "done"
    /\ retval = Returned(TaskFailed)
    /\ ~turn.sent

\* what holds: a compaction that does not raise has cleared the history when
\* the message is about to be sent, with or without a seed, and only the
\* upload path can raise
CompactionClearsUnlessItRaises ==
    /\ (turn.compacted /\ pc = "invoke")
       => /\ hist = 0
          /\ convLen = get_context_token_count(message)
          /\ turn.raised = "none"
    /\ (turn.compacted /\ turn.raised = "compaction") => cfg.upload /\ ~turn.sent

\* the upload path in order: the history is cleared only once the file is
\* written, and the upload is attempted only on a cleared history
UploadClearsAfterCapture ==
    /\ pc = "upload cleared" => tmp_file_name \in disk /\ hist = 0 /\ prompt = <<>>
    /\ (pc = "upload exit" /\ retval.how = "return") => hist = 0
    /\ (pc = "upload exit" /\ turn.raised = "upload_files") => hist = 0

\* a compaction by upload that ends with the history as it was: the file
\* could not be written
UploadLeavesHistory ==
    /\ pc = "upload exit"
    /\ turn.raised = "write"
    /\ retval = Raised
    /\ hist > 0

\* the names of a list that the table did not hold before the operation
Missing(names, table) == Atoms(names) \ {e.name : e \in Entries(table)}

\* C37: use_tools(N) with a name in N that is not registered completes
\* without raising and leaves the table restricted to the names of N that
\* are registered
C37_UseToolsToleratesMissing ==
    (turn.op = "use_tools" /\ Missing(turn.arg, turn.before) # {})
    => /\ ~turn.raised
       /\ Restricted(LAMBDA n : n \in Atoms(turn.arg))

\* use_tools with a missing name next to a registered one: it raised and the
\* table is as it was, not restricted
UseToolsRaisedOnMissing ==
    /\ turn.op = "use_tools"
    /\ Missing(turn.arg, turn.before) # {}
    /\ Atoms(turn.arg) \cap {e.name : e \in Entries(turn.before)} # {}
    /\ turn.raised
    /\ self_tools = turn.before
    /\ Len(self_tools) > 1

\* use_tools raises exactly when a name of the list is missing, and then
\* changes nothing
UseToolsRaisesIffMissing ==
    turn.op = "use_tools"
    => /\ turn.raised = (Missing(turn.arg, turn.before) # {})
       /\ turn.raised => self_tools = turn.before

\* the files of the response that the loop of apply_patch has handled
HandledFiles == Atoms(PatchedFiles(_parse_patch(resp), <<>>)) \ Atoms(turn.todo)

\* the file of a path as it is at HEAD
AtHead(f) == IF f \in turn.tracked THEN "head" ELSE "none"

CommitKeepsOrRevertsAll ==
    pc = "patch done"
    => \A f \in PatchFiles :
         IF turn.commit = "cancelled" THEN disk[f] = AtHead(f)
         ELSE f \in Atoms(turn.applied) => disk[f] = "patched"

\* a failed file whose content was not committed is gone or overwritten
FailedFileLosesLocalContent ==
    /\ "a.py" \in Atoms(turn.failed_files)
    /\ turn.before["a.py"] = "local"
    /\ disk["a.py"] # "local"

====
